---- MODULE Spec2Model ----
(***************************************************************************)
(* A model of geomotion's strong-motion record reader (sm/record.py):      *)
(* parse_component decodes one component block from a line stream,         *)
(* component_iterator repeats it until end of input, and Record.__init__   *)
(* realigns the components into a North/East/vertical acceleration grid.   *)
(*                                                                         *)
(* A file is a sequence of lines; a line is a string, as readline()        *)
(* returns it (with its newline).  The text alphabet of the model is the   *)
(* digits, ".", "-", "+", " ", the newline and the letter "h".             *)
(***************************************************************************)
EXTENDS Integers, Sequences, FiniteSets, TLC

Min(a, b) == IF a <= b THEN a ELSE b

Max(a, b) == IF a >= b THEN a ELSE b

Abs(a) == IF a < 0 THEN 0 - a ELSE a

(***************************************************************************)
(* Python's str methods and numeric conversions, on the model's alphabet.  *)
(***************************************************************************)
Whitespace == {" ", "\n"}

DigitChars == "0123456789"

char(s, i) == SubSeq(s, i, i)

DigitSet == {"0", "1", "2", "3", "4", "5", "6", "7", "8", "9"}

IsDigit(c) == c \in DigitSet

DigitVal(c) ==
    CASE c = "0" -> 0 [] c = "1" -> 1 [] c = "2" -> 2 [] c = "3" -> 3 [] c = "4" -> 4
      [] c = "5" -> 5 [] c = "6" -> 6 [] c = "7" -> 7 [] c = "8" -> 8 [] c = "9" -> 9

\* str.isspace(): at least one character and all of them whitespace.
isspace(s) == Len(s) > 0 /\ \A i \in 1..Len(s) : char(s, i) \in Whitespace

\* str.strip(): without its leading and trailing whitespace.
strip(s) ==
    LET idx == {i \in 1..Len(s) : char(s, i) \notin Whitespace}
        lo == CHOOSE i \in idx : \A j \in idx : i <= j
        hi == CHOOSE i \in idx : \A j \in idx : i >= j
    IN IF idx = {} THEN "" ELSE SubSeq(s, lo, hi)

RECURSIVE token_end(_, _)
token_end(s, j) ==
    IF j >= Len(s) \/ char(s, j + 1) \in Whitespace THEN j ELSE token_end(s, j + 1)

RECURSIVE split_from(_, _)
split_from(s, i) ==
    IF i > Len(s) THEN <<>>
    ELSE IF char(s, i) \in Whitespace THEN split_from(s, i + 1)
    ELSE LET j == token_end(s, i)
         IN <<SubSeq(s, i, j)>> \o split_from(s, j + 1)

\* str.split(): the maximal runs of non-whitespace characters, in order.
split(s) == split_from(s, 1)

\* sep.join(toks)
RECURSIVE join(_, _)
join(toks, sep) ==
    IF Len(toks) = 0 THEN ""
    ELSE IF Len(toks) = 1 THEN toks[1]
    ELSE toks[1] \o sep \o join(Tail(toks), sep)

RECURSIVE digits_val(_)
digits_val(s) ==
    IF Len(s) = 0 THEN 0
    ELSE digits_val(SubSeq(s, 1, Len(s) - 1)) * 10 + DigitVal(char(s, Len(s)))

unsigned(s) == IF Len(s) > 0 /\ char(s, 1) \in {"-", "+"} THEN SubSeq(s, 2, Len(s)) ELSE s

sign(s) == IF Len(s) > 0 /\ char(s, 1) = "-" THEN 0 - 1 ELSE 1

\* int(s) raises ValueError unless s is an optional sign and one or more digits.
int_ok(s) ==
    LET b == unsigned(strip(s))
    IN Len(b) > 0 /\ \A i \in 1..Len(b) : IsDigit(char(b, i))

int(s) == sign(strip(s)) * digits_val(unsigned(strip(s)))

(***************************************************************************)
(* A float read from the file is kept as the decimal it denotes,           *)
(* [m |-> mantissa, e |-> decimal places], i.e. m / 10^e, in lowest form:  *)
(* two texts denote the same float iff they give the same record.          *)
(***************************************************************************)
RECURSIVE Norm(_, _)
Norm(m, e) ==
    IF m = 0 THEN [m |-> 0, e |-> 0]
    ELSE IF e > 0 /\ m % 10 = 0 THEN Norm(m \div 10, e - 1)
    ELSE [m |-> m, e |-> e]

\* float(s) raises ValueError unless s, stripped, is an optional sign and
\* digits with at most one point and at least one digit.
float_ok(s) ==
    LET b == unsigned(strip(s))
        dots == {i \in 1..Len(b) : char(b, i) = "."}
    IN /\ \A i \in 1..Len(b) : IsDigit(char(b, i)) \/ char(b, i) = "."
       /\ Cardinality(dots) <= 1
       /\ Len(b) > Cardinality(dots)

float(s) ==
    LET t == strip(s)
        b == unsigned(t)
        dots == {i \in 1..Len(b) : char(b, i) = "."}
        dot == IF dots = {} THEN Len(b) + 1 ELSE CHOOSE i \in dots : TRUE
        whole == SubSeq(b, 1, dot - 1)
        frac == SubSeq(b, dot + 1, Len(b))
    IN Norm(sign(t) * digits_val(whole \o frac), Len(frac))

\* x / 1000 and i * x on these decimals.
DivThousand(x) == Norm(x.m, x.e + 3)

\* A variant of IntTimes: the multiples are counted from one.
OneMoreTimes(i, x) == Norm((i + 1) * x.m, x.e)

IntTimes(i, x) == Norm(i * x.m, x.e)

\* sequence[start:end] for 0 <= start, 0 <= end.
PySlice(s, start, end) == SubSeq(s, start + 1, Min(end, Len(s)))

\* file.readline(): the next line, or '' at the end of the file.
readline(source, pos) == IF pos < Len(source) THEN source[pos + 1] ELSE ""

\* The cursor after n calls of readline from pos.
advance(source, pos, n) == Min(pos + n, Len(source))

(***************************************************************************)
(* datetime(...) raises ValueError for a date or time out of range; a      *)
(* valid one is kept as its UTC fields (astimezone keeps the instant).     *)
(***************************************************************************)
IsLeap(y) == (y % 4 = 0 /\ y % 100 # 0) \/ y % 400 = 0

DaysIn(y, m) ==
    IF m \in {4, 6, 9, 11} THEN 30
    ELSE IF m = 2 THEN (IF IsLeap(y) THEN 29 ELSE 28)
    ELSE 31

datetime_ok(y, m, d, h, mn, s) ==
    /\ y \in 1..9999 /\ m \in 1..12 /\ d \in 1..DaysIn(y, m)
    /\ h \in 0..23 /\ mn \in 0..59 /\ s \in 0..59

datetime(y, m, d, h, mn, s) == <<y, m, d, h, mn, s>>

\* d + (m * 60.0 + s) / 3600, kept as the exact fraction n / 3600.
degrees(d, m, s) == [n |-> d * 3600 + m * 60 + s, d |-> 3600]

negated(x) == [n |-> 0 - x.n, d |-> x.d]

(***************************************************************************)
(* parse_component(source, timezone).                                      *)
(***************************************************************************)
HeadingLines == 16

FieldsPerLine == 10

FieldWidth == 8

\* A sample sequence of the returned data, or None.
None == [present |-> FALSE, val |-> <<>>]

Some(s) == [present |-> TRUE, val |-> s]

\* map(int, line.split()) unpacked into ten names: ValueError unless the
\* line holds exactly ten tokens, each an integer.
intline(line) ==
    LET toks == split(line)
    IN IF Len(toks) = 10 /\ \A i \in 1..10 : int_ok(toks[i])
       THEN [ok |-> TRUE, v |-> [i \in 1..10 |-> int(toks[i])]]
       ELSE [ok |-> FALSE, v |-> <<>>]

floatline(line) ==
    LET toks == split(line)
    IN IF Len(toks) = 10 /\ \A i \in 1..10 : float_ok(toks[i])
       THEN [ok |-> TRUE, v |-> [i \in 1..10 |-> float(toks[i])]]
       ELSE [ok |-> FALSE, v |-> <<>>]

\* blocks = [slice(i*8, i*8+8) for i in range(0, 10)]
blocks == [i \in 1..FieldsPerLine |->
              [start |-> (i - 1) * FieldWidth, stop |-> (i - 1) * FieldWidth + FieldWidth]]

\* A variant of values: the fields are the whitespace-separated tokens.
tokens(line) == split(line)

\* values = [line[block] for block in blocks]
values(line) ==
    [i \in 1..FieldsPerLine |-> SubSeq(line, blocks[i].start + 1, Min(blocks[i].stop, Len(line)))]

\* [value for value in values if not value.isspace()]
nonblank(line) == SelectSeq(values(line), LAMBDA v : ~isspace(v))

\* A variant of read_samples: the loop goes round once more, until all_data
\* holds more than a values.
RECURSIVE read_beyond(_, _, _, _)
read_beyond(source, pos, a, all_data) ==
    IF Len(all_data) <= a
    THEN read_beyond(source, advance(source, pos, 1), a,
                     all_data \o nonblank(readline(source, pos)))
    ELSE [all_data |-> all_data, pos |-> pos]

\* A variant of read_samples: a line is also read while there are no
\* fields at all.
RECURSIVE read_some(_, _, _, _)
read_some(source, pos, a, all_data) ==
    IF Len(all_data) < a \/ Len(all_data) = 0
    THEN read_some(source, advance(source, pos, 1), a,
                   all_data \o nonblank(readline(source, pos)))
    ELSE [all_data |-> all_data, pos |-> pos]

\* while len(all_data) < a: read a line and extend all_data with its
\* non-blank fields.  The result is all_data and the cursor after the loop.
RECURSIVE read_samples(_, _, _, _)
read_samples(source, pos, a, all_data) ==
    IF Len(all_data) < a
    THEN read_samples(source, advance(source, pos, 1), a,
                      all_data \o nonblank(readline(source, pos)))
    ELSE [all_data |-> all_data, pos |-> pos]

\* A variant of split_data: velocity and displacement change places.
split_swapped(all_data, pre, a, v, d) ==
    LET scaled(s) == [i \in 1..Len(s) |-> DivThousand(s[i])]
        start2 == IF a # 0 THEN pre + a ELSE pre
        start3 == IF d # 0 THEN start2 + d ELSE start2
    IN [acceleration |-> IF a # 0 THEN Some(scaled(PySlice(all_data, pre, pre + a))) ELSE None,
        velocity |-> IF v # 0 THEN Some(scaled(PySlice(all_data, start3, start3 + v))) ELSE None,
        displacement |-> IF d # 0 THEN Some(scaled(PySlice(all_data, start2, start2 + d))) ELSE None]

\* Split it out into the different sorts of data (lines 141-159).
split_data(all_data, pre, a, v, d) ==
    LET start1 == pre
        start2 == IF a # 0 THEN start1 + a ELSE start1
        start3 == IF v # 0 THEN start2 + v ELSE start2
        scaled(s) == [i \in 1..Len(s) |-> DivThousand(s[i])]
    IN [acceleration |-> IF a # 0 THEN Some(scaled(PySlice(all_data, start1, start1 + a))) ELSE None,
        velocity |-> IF v # 0 THEN Some(scaled(PySlice(all_data, start2, start2 + v))) ELSE None,
        displacement |-> IF d # 0 THEN Some(scaled(PySlice(all_data, start3, start3 + d))) ELSE None]

NoHeader ==
    [heading |-> "",
     event |-> [time |-> datetime(0, 0, 0, 0, 0, 0),
                latitude |-> degrees(0, 0, 0), longitude |-> degrees(0, 0, 0),
                hypocentral_depth |-> 0, centroid_depth |-> 0, bearing |-> 0, distance |-> 0],
     site |-> [latitude |-> degrees(0, 0, 0), longitude |-> degrees(0, 0, 0),
               longitudinal_axis |-> 0, local_gravity |-> Norm(0, 0)],
     magnitudes |-> [Ml |-> Norm(0, 0), Ms |-> Norm(0, 0), Mw |-> Norm(0, 0), Mb |-> Norm(0, 0)],
     axis |-> 0 - 1,
     buffer_start |-> datetime(0, 0, 0, 0, 0, 0),
     duration |-> Norm(0, 0),
     timestep |-> Norm(0, 0)]

NoData == [acceleration |-> None, velocity |-> None, displacement |-> None]

\* What a call of parse_component does: kind is "ok" (it returns header and
\* data), "EOFError" or "ValueError"; pos is where it leaves the cursor;
\* fields are the strings the sample loop accumulated.
Outcome(kind, pos, header, data, fields) ==
    [kind |-> kind, pos |-> pos, header |-> header, data |-> data, fields |-> fields]

Raise(kind, source, pos, n) == Outcome(kind, advance(source, pos, n), NoHeader, NoData, <<>>)

parse_component(source, pos) ==
    LET line(k) == readline(source, pos + k - 1)   \* the k-th line read
        i1 == intline(line(HeadingLines + 1))
        i2 == intline(line(HeadingLines + 2))
        i3 == intline(line(HeadingLines + 3))
        i4 == intline(line(HeadingLines + 4))
        f2 == floatline(line(HeadingLines + 6))
        f3 == floatline(line(HeadingLines + 7))
        pre == i4.v[2]
        a == i4.v[4]
        v == i4.v[5]
        d == i4.v[6]
        loop == read_samples(source, advance(source, pos, HeadingLines + 10), a, <<>>)
        header ==
            [heading |-> join([k \in 1..HeadingLines |-> line(k)], ""),
             event |-> [time |-> datetime(i1.v[1], i1.v[2], i1.v[3], i1.v[4], i1.v[5], i1.v[6] \div 10),
                        latitude |-> negated(degrees(i2.v[1], i2.v[2], i2.v[3])),
                        longitude |-> degrees(i2.v[4], i2.v[5], i2.v[6]),
                        hypocentral_depth |-> i2.v[7],
                        centroid_depth |-> i2.v[8],
                        bearing |-> i3.v[9],
                        distance |-> i3.v[10] * 1000],
             site |-> [latitude |-> negated(degrees(i3.v[1], i3.v[2], i3.v[3])),
                       longitude |-> degrees(i3.v[4], i3.v[5], i3.v[6]),
                       longitudinal_axis |-> i3.v[7],
                       local_gravity |-> DivThousand(f3.v[10])],
             magnitudes |-> [Ml |-> f2.v[5], Ms |-> f2.v[6], Mw |-> f2.v[7], Mb |-> f2.v[8]],
             axis |-> i3.v[8],
             buffer_start |-> datetime(i1.v[9], i1.v[10], i2.v[9], i2.v[10], i4.v[9], i4.v[10] \div 1000),
             duration |-> f3.v[1],
             timestep |-> f3.v[6]]
    IN IF line(1) = "" THEN Raise("EOFError", source, pos, HeadingLines)
       ELSE IF ~i1.ok \/ ~datetime_ok(i1.v[1], i1.v[2], i1.v[3], i1.v[4], i1.v[5], i1.v[6] \div 10)
       THEN Raise("ValueError", source, pos, HeadingLines + 1)
       ELSE IF ~i2.ok THEN Raise("ValueError", source, pos, HeadingLines + 2)
       ELSE IF ~i3.ok THEN Raise("ValueError", source, pos, HeadingLines + 3)
       ELSE IF ~i4.ok \/ ~datetime_ok(i1.v[9], i1.v[10], i2.v[9], i2.v[10], i4.v[9], i4.v[10] \div 1000)
       THEN Raise("ValueError", source, pos, HeadingLines + 4)
       ELSE IF ~f2.ok THEN Raise("ValueError", source, pos, HeadingLines + 6)
       ELSE IF ~f3.ok THEN Raise("ValueError", source, pos, HeadingLines + 7)
       ELSE IF \E i \in 1..Len(loop.all_data) : ~float_ok(loop.all_data[i])
       THEN Outcome("ValueError", loop.pos, NoHeader, NoData, loop.all_data)
       ELSE Outcome("ok", loop.pos, header,
                    split_data([i \in 1..Len(loop.all_data) |-> float(loop.all_data[i])], pre, a, v, d),
                    loop.all_data)

(***************************************************************************)
(* The arithmetic of Record.__init__.  An entry of the acceleration grid   *)
(* is the float sum, in the order it was accumulated, of terms x * c: x a  *)
(* sample and c a coefficient math.cos or math.sin returned.  <<>> is 0.0. *)
(* A sum is reduced only where IEEE-754 doubles give the result exactly:   *)
(* x * 1.0 = x, x * 0.0 = 0.0, 0.0 + t = t, t + 0.0 = t, and x + t = x     *)
(* when t is below half a unit in the last place of x.                     *)
(*   math.cos(math.radians(0)) = 1.0    math.sin(math.radians(0)) = 0.0    *)
(*   math.cos(math.radians(90)) = 6.123233995736766e-17                    *)
(*   math.sin(math.radians(90)) = 1.0                                      *)
(* Other bearings give coefficients that stay symbolic.                    *)
(***************************************************************************)
VerticalAxis == 999

\* A variant of cos: the cosine of a right angle is exactly zero.
cos_exact(deg) ==
    IF deg = 0 THEN [kind |-> "one", f |-> "cos", deg |-> deg]
    ELSE IF deg = 90 THEN [kind |-> "zero", f |-> "cos", deg |-> deg]
    ELSE [kind |-> "generic", f |-> "cos", deg |-> deg]

cos(deg) ==
    IF deg = 0 THEN [kind |-> "one", f |-> "cos", deg |-> deg]
    ELSE IF deg = 90 THEN [kind |-> "tiny", f |-> "cos", deg |-> deg]
    ELSE [kind |-> "generic", f |-> "cos", deg |-> deg]

sin(deg) ==
    IF deg = 0 THEN [kind |-> "zero", f |-> "sin", deg |-> deg]
    ELSE IF deg = 90 THEN [kind |-> "one", f |-> "sin", deg |-> deg]
    ELSE [kind |-> "generic", f |-> "sin", deg |-> deg]

One == [kind |-> "one", f |-> "cos", deg |-> 0]

plain(x) == <<[x |-> x, c |-> One]>>

NaN == <<[x |-> Norm(0, 0), c |-> [kind |-> "nan", f |-> "nan", deg |-> 0]]>>

\* x * c for a sample x and a coefficient c.
fmul(x, c) ==
    IF x.m = 0 \/ c.kind = "zero" THEN <<>>
    ELSE IF c.kind = "one" THEN plain(x)
    ELSE <<[x |-> x, c |-> c]>>

RECURSIVE pow10(_)
pow10(n) == IF n = 0 THEN 1 ELSE 10 * pow10(n - 1)

RECURSIVE pow2_upto(_, _)
pow2_upto(p, limit) == IF 2 * p <= limit THEN pow2_upto(2 * p, limit) ELSE p

RECURSIVE pow2_from(_, _)
pow2_from(q, limit) == IF q >= limit THEN 1 ELSE 2 * pow2_from(2 * q, limit)

\* Whether x + y * cos(radians(90)) rounds to x, for x # 0: the addend is
\* below half an ulp of x iff |y| < 1.81313 * 2^floor(log2 |x|), since
\* cos(radians(90)) * 2^53 = 0.551532.  Decided in units of 10^-E; the
\* factor is taken as 1.813, which decides every pair of samples of up to
\* four decimals below 100000 whose ratio is not within 0.0002 of it (x not
\* an exact power of two).
absorbs(x, y) ==
    LET E == Max(4, Max(x.e, y.e))
        X == Abs(x.m) * pow10(E - x.e)
        Y == Abs(y.m) * pow10(E - y.e)
        unit == pow10(E)
        bound == 1813 * pow10(E - 3)
    IN IF X >= unit
       THEN Y <= bound * pow2_upto(1, X \div unit)
       ELSE Y <= bound /\ Y * pow2_from(X, unit) <= bound

\* r + p for two entries.
fadd(r, p) ==
    IF p = <<>> THEN r
    ELSE IF r = <<>> THEN p
    ELSE IF Len(r) = 1 /\ Len(p) = 1 /\ r[1].c.kind = "one" /\ p[1].c.kind = "tiny"
            /\ absorbs(r[1].x, p[1].x) THEN r
    ELSE IF Len(r) = 1 /\ Len(p) = 1 /\ r[1].c.kind = "tiny" /\ p[1].c.kind = "one"
            /\ absorbs(p[1].x, r[1].x) THEN p
    ELSE r \o p

\* numpy puts an array of m values into (or adds it to) a row of n when
\* m = n or m = 1 (broadcast), and raises ValueError otherwise.
fits(n, m) == m = n \/ m = 1

broadcast(n, vals) == [i \in 1..n |-> vals[IF Len(vals) = 1 THEN 1 ELSE i]]

\* numpy.zeros(shape=(3, n))
zeros(n) == [r \in 1..3 |-> [i \in 1..n |-> <<>>]]

(***************************************************************************)
(* The files the model reads.  A file is described by its blocks and a     *)
(* defect of its last block, and rendered to the lines the reader sees.    *)
(* A block is 16 heading lines, 4 lines of ten integers, 6 lines of ten    *)
(* floats and the sample lines: pre + a + v + d values in fields of eight  *)
(* characters, ten fields to a line, unused fields blank.                  *)
(***************************************************************************)
MaxBlocks == 4

NSamples == 2

MaxCount == 2

Axes == {VerticalAxis, 0, 90, 30}

Layouts == {"full", "gapped", "single"}

Blank == "        "

SampleText == <<"     0.0", "     1.0", "    -2.5", "999999.9", "-12345.6">>

\* The text of the j-th sample of the block at position p of its file.
sample(p, j) == SampleText[((p + j - 2) % Len(SampleText)) + 1]

RECURSIVE str(_)
str(n) ==
    IF n < 0 THEN "-" \o str(0 - n)
    ELSE IF n < 10 THEN char(DigitChars, n + 1)
    ELSE str(n \div 10) \o char(DigitChars, (n % 10) + 1)

total(b) == b.pre + b.a + b.v + b.d

per_line(layout) == IF layout = "full" THEN 10 ELSE IF layout = "gapped" THEN 5 ELSE 1

sample_lines(b) == (total(b) + per_line(b.layout) - 1) \div per_line(b.layout)

\* The sample (its index in the block) in field f of sample line ln, 0 for
\* a blank field: "full" fills every field, "gapped" every second one,
\* "single" the first one only.
slot(b, ln, f) ==
    LET j == IF b.layout = "full" THEN (ln - 1) * 10 + f
             ELSE IF b.layout = "gapped"
                  THEN (IF f % 2 = 0 THEN (ln - 1) * 5 + f \div 2 ELSE 0)
                  ELSE (IF f = 1 THEN ln ELSE 0)
    IN IF j <= total(b) THEN j ELSE 0

cells(b, p, ln) ==
    [f \in 1..FieldsPerLine |-> IF slot(b, ln, f) = 0 THEN Blank ELSE sample(p, slot(b, ln, f))]

\* The header fields the files vary.  Block p of a file has the fields
\* Usual(p), so that the blocks of a file differ in them, unless it names
\* its own (a field "head").
Usual(p) ==
    [tenths |-> 420, elat |-> 43, slat |-> 43, ssec |-> 47 + p, depth |-> 4 + p,
     bearing |-> 90, ml |-> "6." \o str(p), duration |-> str(19 + p) \o ".0",
     timestep |-> IF p % 2 = 1 THEN "0.5" ELSE "0.25", ms |-> 40000 + 1000 * p]

head(b, p) == IF "head" \in DOMAIN b THEN b.head ELSE Usual(p)

\* The rows of a block: the tokens of each line and what separates them.
rows(b, p) ==
    LET text(t) == [sep |-> " ", toks |-> t]
        zero == "0.0"
        h == head(b, p)
    IN [k \in 1..HeadingLines |-> [sep |-> "", toks |-> <<"h">>]]
       \o <<text(<<"2011", "2", "21", "23", "51", str(h.tenths), "0", "0", "2011", "2">>),
            text(<<str(h.elat), "35", "0", "172", "42", "0", str(h.depth), "5", "21", "23">>),
            text(<<str(h.slat), "31", str(h.ssec), "172", "37", "12", "0", str(b.axis),
                   str(h.bearing), "8">>),
            text(<<str(total(b)), str(b.pre), "0", str(b.a), str(b.v), str(b.d),
                   "0", "0", "51", str(h.ms)>>),
            text(<<zero, zero, zero, zero, zero, zero, zero, zero, zero, zero>>),
            text(<<zero, zero, zero, zero, h.ml, "6.4", "6.2", zero, zero, zero>>),
            text(<<h.duration, zero, zero, zero, zero, h.timestep, zero, zero, zero, "9806.0">>),
            text(<<zero, zero, zero, zero, zero, zero, zero, zero, zero, zero>>),
            text(<<zero, zero, zero, zero, zero, zero, zero, zero, zero, zero>>),
            text(<<zero, zero, zero, zero, zero, zero, zero, zero, zero, zero>>)>>
       \o [ln \in 1..sample_lines(b) |-> [sep |-> "", toks |-> cells(b, p, ln)]]

block_length(b) == HeadingLines + 10 + sample_lines(b)

NoDefect == [kind |-> "none", at |-> 0]

\* "cut": the file ends after line `at` of the block; "short": line `at`
\* of the block lacks its last field.
damaged(rs, defect) ==
    IF defect.kind = "cut" THEN SubSeq(rs, 1, defect.at)
    ELSE IF defect.kind = "short"
    THEN [k \in 1..Len(rs) |->
            IF k = defect.at
            THEN [sep |-> rs[k].sep, toks |-> SubSeq(rs[k].toks, 1, Len(rs[k].toks) - 1)]
            ELSE rs[k]]
    ELSE rs

render(rs) == [k \in 1..Len(rs) |-> join(rs[k].toks, rs[k].sep) \o "\n"]

RECURSIVE lines_from(_, _)
lines_from(f, p) ==
    IF p > Len(f.blocks) THEN <<>>
    ELSE render(damaged(rows(f.blocks[p], p),
                        IF p = Len(f.blocks) THEN f.defect ELSE NoDefect))
         \o lines_from(f, p + 1)

lines(f) == lines_from(f, 1)

\* The line of the file at which block p starts (0-based, as the cursor).
RECURSIVE block_start(_, _)
block_start(f, p) ==
    IF p = 1 THEN 0 ELSE block_start(f, p - 1) + block_length(f.blocks[p - 1])

Block(axis, pre, a, v, d, layout) ==
    [axis |-> axis, pre |-> pre, a |-> a, v |-> v, d |-> d, layout |-> layout]

\* Files of up to MaxBlocks components of NSamples acceleration samples
\* each.
PlainFiles ==
    UNION {
        {[blocks |-> [p \in 1..n |-> Block(axes[p], 0, NSamples, 0, 0, "full")],
          defect |-> NoDefect] : axes \in [1..n -> Axes]} :
        n \in 0..MaxBlocks}

\* A component may instead have no samples ("empty"), one sample fewer
\* ("short") or a velocity sample after them, one sample to a line
\* ("velocity").
Quirks == {"empty", "short", "velocity"}

quirked(b, quirk) ==
    IF quirk = "empty" THEN Block(b.axis, 0, 0, 0, 0, "full")
    ELSE IF quirk = "short" THEN Block(b.axis, 0, b.a - 1, 0, 0, "full")
    ELSE Block(b.axis, 0, b.a, 1, 0, "single")

\* The plain files with one of their first three components replaced.
QuirkedFiles ==
    UNION {
        {[f EXCEPT !.blocks[q[1]] = quirked(f.blocks[q[1]], q[2])] :
            q \in (1..Min(Len(f.blocks), 3)) \X Quirks} :
        f \in PlainFiles}

RecordFiles == PlainFiles \cup QuirkedFiles

\* Files of one component, over the sample counts, the layouts and the
\* defects.
ComponentFiles ==
    UNION {
        {[blocks |-> <<b>>, defect |-> df] :
            df \in {NoDefect}
                   \cup {[kind |-> "cut", at |-> k] : k \in 1..(block_length(b) - 1)}
                   \cup {[kind |-> "short", at |-> k] :
                            k \in (HeadingLines + 1)..block_length(b)}} :
        b \in {Block(0, pre, a, v, d, layout) :
                  pre \in 0..1, a \in 0..MaxCount, v \in 0..1, d \in 0..1,
                  layout \in Layouts}}

\* The header fields of the files of one component that vary them.
Heads ==
    [tenths : {420, 425}, elat : {43, 0 - 43}, slat : {43, 0 - 43, 0}, ssec : {48},
     depth : {5}, bearing : {90, 270}, ml : {"6.3"}, duration : {"20.0"},
     timestep : {"0.5", "0.25"}, ms : {40000, 40500}]

\* Files of one component of NSamples acceleration samples, over the header
\* fields.
HeaderFiles ==
    {[blocks |-> <<[axis |-> 0, pre |-> 0, a |-> NSamples, v |-> 0, d |-> 0,
                    layout |-> "full", head |-> h]>>,
      defect |-> NoDefect] : h \in Heads}

Files == RecordFiles \cup ComponentFiles \cup HeaderFiles

(***************************************************************************)
(* Record.__init__(self, site_info, source, timezone).                     *)
(*                                                                         *)
(* file is the description of the file being read and source its lines;    *)
(* pos is the cursor of the stream (lines consumed).  pc is "next" when    *)
(* the for loop asks component_iterator for its next item, "body" when     *)
(* parse_component has ended and item holds what it did, and "done" once   *)
(* __init__ has returned or raised; result says which ("Record" for a      *)
(* normal return).  yielded lists the (header, data) pairs that            *)
(* component_iterator has yielded.  close is the local of that name (the   *)
(* stream was opened here, from a filename) and closed whether             *)
(* source.close() has been called.  site is the site_info dictionary,      *)
(* which self.site aliases.  self holds the other attributes.              *)
(* server is the state of a Server (further down).                          *)
(***************************************************************************)
VARIABLES file, source, pos, pc, item, result, first_run, seen_axes,
          horizontal_axes, vertical_axis, self, site, yielded, close, closed,
          server, app, info_cache

record_vars == <<file, source, pos, pc, item, result, first_run, seen_axes,
                 horizontal_axes, vertical_axis, self, site, yielded, close, closed>>

vars == <<record_vars, server, app, info_cache>>

\* No Server is at work while a Record is constructed from a file, no
\* Application and no info cache.
NoServer == [pc |-> "none"]

NoApplication == [pc |-> "none"]

NoTables == [pc |-> "none"]

Unset(v) == [has |-> FALSE, v |-> v]

Value(v) == [has |-> TRUE, v |-> v]

\* A site_info as Server.get_site_info returns it: the name and coordinates
\* the sites table holds, and none of the other keys of header['site'].
SiteInfo ==
    [name |-> Value("Christchurch"),
     latitude |-> Value(negated(degrees(43, 31, 0))),
     longitude |-> Value(degrees(172, 37, 0)),
     longitudinal_axis |-> Unset(0), local_gravity |-> Unset(Norm(0, 0))]

\* self.site.update(header['site'])
update(s, d) ==
    [s EXCEPT !.latitude = Value(d.latitude), !.longitude = Value(d.longitude),
              !.longitudinal_axis = Value(d.longitudinal_axis),
              !.local_gravity = Value(d.local_gravity)]

NoSelf ==
    [event |-> NoHeader.event, magnitudes |-> NoHeader.magnitudes,
     start |-> NoHeader.buffer_start, timestep |-> NoHeader.timestep,
     duration |-> NoHeader.duration, data_length |-> 0,
     acceleration |-> zeros(0), time |-> <<>>]

NoItem == Outcome("none", 0, NoHeader, NoData, <<>>)

Init ==
    /\ file \in Files
    /\ source = lines(file)
    /\ pos = 0
    /\ pc = "next"
    /\ item = NoItem
    /\ result = "none"
    /\ first_run = TRUE
    /\ seen_axes = {}
    /\ horizontal_axes = 0
    /\ vertical_axis = FALSE
    /\ self = NoSelf
    /\ site = SiteInfo
    /\ yielded = <<>>
    /\ close \in (IF file \in PlainFiles THEN BOOLEAN ELSE {TRUE})
    /\ closed = FALSE
    /\ server = NoServer
    /\ app = NoApplication
    /\ info_cache = NoTables

\* The attributes set before len(data['acceleration']).
first_header(header) ==
    [self EXCEPT !.event = header.event, !.magnitudes = header.magnitudes,
                 !.start = header.buffer_start, !.timestep = header.timestep,
                 !.duration = header.duration]

\* A variant of populated: the first_run block runs for every component.
repopulated(header, data) ==
    LET n == Len(data.acceleration.val)
    IN [first_header(header) EXCEPT
           !.data_length = n,
           !.acceleration = zeros(n),
           !.time = [i \in 1..n |-> IntTimes(i - 1, header.timestep)]]

\* The attributes after the first_run block.
populated(header, data) ==
    IF first_run
    THEN LET n == Len(data.acceleration.val)
         IN [first_header(header) EXCEPT
                !.data_length = n,
                !.acceleration = zeros(n),
                !.time = [i \in 1..n |-> IntTimes(i - 1, header.timestep)]]
    ELSE self

\* raise TooFewComponents(): the exception is made without arguments, and
\* the class adds nothing to ValueError.
TooFewComponents == [type |-> "TooFewComponents", args |-> <<>>]

\* Did we get enough components?
enough(vertical, horizontal) == ~(~vertical \/ horizontal < 2)

\* After the loop: close the stream if it was opened here, then raise
\* TooFewComponents or return.
after_loop(vertical, horizontal) ==
    /\ closed' = close
    /\ result' = IF enough(vertical, horizontal) THEN "Record" ELSE TooFewComponents.type
    /\ pc' = "done"

\* An exception leaves __init__ at once.
raise(exception) ==
    /\ result' = exception
    /\ pc' = "done"
    /\ closed' = closed

\* The end of the loop body: break out of the loop, or go round it again.
shortcut(vertical, horizontal) ==
    IF vertical /\ horizontal = 2
    THEN after_loop(vertical, horizontal)
    ELSE /\ pc' = "next"
         /\ UNCHANGED <<result, closed>>

\* The for loop asks for the next item: component_iterator calls
\* parse_component, which reads the stream; what it returns is yielded.
Parse ==
    /\ pc = "next"
    /\ item' = parse_component(source, pos)
    /\ pos' = item'.pos
    /\ yielded' = IF item'.kind = "ok"
                  THEN Append(yielded, [header |-> item'.header, data |-> item'.data])
                  ELSE yielded
    /\ pc' = "body"
    /\ UNCHANGED <<info_cache, app, server, file, source, result, first_run, seen_axes, horizontal_axes,
                   vertical_axis, self, site, close, closed>>

Body ==
    /\ pc = "body"
    /\ item.kind = "ok"
    /\ UNCHANGED <<info_cache, app, server, file, source, pos, item, yielded, close>>

\* The first component has no acceleration: len(None) is a TypeError.
NoLength ==
    /\ Body
    /\ first_run /\ ~item.data.acceleration.present
    /\ self' = first_header(item.header)
    /\ site' = update(site, item.header.site)
    /\ raise("TypeError")
    /\ UNCHANGED <<first_run, seen_axes, horizontal_axes, vertical_axis>>

\* The loop body gets past the first_run block.
Enter ==
    /\ Body
    /\ ~(first_run /\ ~item.data.acceleration.present)
    /\ first_run' = FALSE
    /\ site' = IF first_run THEN update(site, item.header.site) ELSE site

\* A repeated axis: continue.
SkipRepeated ==
    /\ Enter
    /\ item.header.axis \in seen_axes
    /\ self' = populated(item.header, item.data)
    /\ pc' = "next"
    /\ UNCHANGED <<result, closed, seen_axes, horizontal_axes, vertical_axis>>

\* A variant of Fresh: a repeated axis is let through.
Refreshed ==
    /\ Enter
    /\ seen_axes' = seen_axes \cup {item.header.axis}

Fresh ==
    /\ Enter
    /\ item.header.axis \notin seen_axes
    /\ seen_axes' = seen_axes \cup {item.header.axis}

\* self.acceleration[2] = data['acceleration']; numpy stores None as nan.
with_vertical(s, acc) ==
    [s EXCEPT !.acceleration[3] =
        IF acc.present THEN broadcast(s.data_length, [i \in 1..Len(acc.val) |-> plain(acc.val[i])])
        ELSE [i \in 1..s.data_length |-> NaN]]

Vertical ==
    /\ Fresh
    /\ item.header.axis = VerticalAxis
    /\ LET s == populated(item.header, item.data)
           acc == item.data.acceleration
       IN /\ acc.present => fits(s.data_length, Len(acc.val))
          /\ self' = with_vertical(s, acc)
          /\ vertical_axis' = TRUE
          /\ shortcut(TRUE, horizontal_axes)
    /\ UNCHANGED horizontal_axes

\* A variant of with_horizontal: sine and cosine change places.
with_horizontal_swapped(s, axis, acc) ==
    LET north == broadcast(s.data_length, [i \in 1..Len(acc) |-> fmul(acc[i], sin(axis))])
        east == broadcast(s.data_length, [i \in 1..Len(acc) |-> fmul(acc[i], cos(axis))])
    IN [s EXCEPT !.acceleration[1] = [i \in 1..s.data_length |-> fadd(s.acceleration[1][i], north[i])],
                 !.acceleration[2] = [i \in 1..s.data_length |-> fadd(s.acceleration[2][i], east[i])]]

\* self.acceleration[0] += data * cos(angle); self.acceleration[1] += data * sin(angle)
with_horizontal(s, axis, acc) ==
    LET north == broadcast(s.data_length, [i \in 1..Len(acc) |-> fmul(acc[i], cos(axis))])
        east == broadcast(s.data_length, [i \in 1..Len(acc) |-> fmul(acc[i], sin(axis))])
    IN [s EXCEPT !.acceleration[1] = [i \in 1..s.data_length |-> fadd(s.acceleration[1][i], north[i])],
                 !.acceleration[2] = [i \in 1..s.data_length |-> fadd(s.acceleration[2][i], east[i])]]

Horizontal ==
    /\ Fresh
    /\ item.header.axis # VerticalAxis
    /\ horizontal_axes < 2
    /\ LET s == populated(item.header, item.data)
           acc == item.data.acceleration
       IN /\ acc.present /\ fits(s.data_length, Len(acc.val))
          /\ self' = with_horizontal(s, item.header.axis, acc.val)
          /\ horizontal_axes' = horizontal_axes + 1
          /\ shortcut(vertical_axis, horizontal_axes + 1)
    /\ UNCHANGED vertical_axis

\* A variant of Unused: a third horizontal axis is added to the grid as the
\* first two were.
Used ==
    /\ Fresh
    /\ item.header.axis # VerticalAxis
    /\ ~(horizontal_axes < 2)
    /\ LET s == populated(item.header, item.data)
           acc == item.data.acceleration
       IN self' = IF acc.present /\ fits(s.data_length, Len(acc.val))
                  THEN with_horizontal(s, item.header.axis, acc.val) ELSE s
    /\ shortcut(vertical_axis, horizontal_axes)
    /\ UNCHANGED <<horizontal_axes, vertical_axis>>

\* A third horizontal axis: neither branch is taken.
Unused ==
    /\ Fresh
    /\ item.header.axis # VerticalAxis
    /\ ~(horizontal_axes < 2)
    /\ self' = populated(item.header, item.data)
    /\ shortcut(vertical_axis, horizontal_axes)
    /\ UNCHANGED <<horizontal_axes, vertical_axis>>

\* numpy cannot fit the component's samples to the grid: ValueError.
Misfit ==
    /\ Fresh
    /\ item.header.axis = VerticalAxis \/ horizontal_axes < 2
    /\ item.data.acceleration.present
    /\ LET s == populated(item.header, item.data)
       IN /\ ~fits(s.data_length, Len(item.data.acceleration.val))
          /\ self' = s
    /\ raise("ValueError")
    /\ UNCHANGED <<horizontal_axes, vertical_axis>>

\* data['acceleration'] is None and None * float is a TypeError.
NoSamples ==
    /\ Fresh
    /\ item.header.axis # VerticalAxis
    /\ horizontal_axes < 2
    /\ ~item.data.acceleration.present
    /\ self' = populated(item.header, item.data)
    /\ raise("TypeError")
    /\ UNCHANGED <<horizontal_axes, vertical_axis>>

\* A variant of Exhausted: component_iterator lets EOFError through.
Uncaught ==
    /\ pc = "body"
    /\ item.kind = "EOFError"
    /\ raise("EOFError")
    /\ UNCHANGED <<info_cache, app, server, file, source, pos, item, close, first_run, seen_axes,
                   horizontal_axes, vertical_axis, self, site, yielded>>

\* component_iterator catches EOFError and ends; the loop is over.
Exhausted ==
    /\ pc = "body"
    /\ item.kind = "EOFError"
    /\ after_loop(vertical_axis, horizontal_axes)
    /\ UNCHANGED <<info_cache, app, server, file, source, pos, item, close, first_run, seen_axes,
                   horizontal_axes, vertical_axis, self, site, yielded>>

\* Any other exception of parse_component passes through component_iterator
\* and out of __init__.
Malformed ==
    /\ pc = "body"
    /\ item.kind \notin {"ok", "EOFError"}
    /\ raise(item.kind)
    /\ UNCHANGED <<info_cache, app, server, file, source, pos, item, close, first_run, seen_axes,
                   horizontal_axes, vertical_axis, self, site, yielded>>

Next ==
    \/ Parse
    \/ NoLength
    \/ SkipRepeated
    \/ Vertical
    \/ Horizontal
    \/ Unused
    \/ Misfit
    \/ NoSamples
    \/ Exhausted
    \/ Malformed

Spec == Init /\ [][Next]_vars

(***************************************************************************)
(* The whitespace-tokenized sample block.  src/sm/record.py holds the      *)
(* fixed-width reader only; this one is taken from the specification:      *)
(* "repeatedly read a line, split on whitespace, append tokens, stop once  *)
(* the running token count reaches the declared total sample count".  The  *)
(* stream is positioned at the first sample line; item.fields holds the    *)
(* tokens accumulated and pos is the cursor.                               *)
(***************************************************************************)
SamplesAt == HeadingLines + 10

\* Files of a whole component, over the sample counts and the layouts, and
\* a second component after it.
TokenFiles ==
    {[blocks |-> <<f.blocks[1], Block(90, 0, NSamples, 0, 0, "full")>>, defect |-> NoDefect] :
        f \in {g \in ComponentFiles : g.defect = NoDefect}}

InitTokens ==
    /\ file \in TokenFiles
    /\ source = lines(file)
    /\ pos = SamplesAt
    /\ pc = "tokens"
    /\ item = NoItem
    /\ result = "none"
    /\ first_run = TRUE
    /\ seen_axes = {}
    /\ horizontal_axes = 0
    /\ vertical_axis = FALSE
    /\ self = NoSelf
    /\ site = SiteInfo
    /\ yielded = <<>>
    /\ close = FALSE
    /\ closed = FALSE
    /\ server = NoServer
    /\ app = NoApplication
    /\ info_cache = NoTables

\* A variant of ReadTokens: a line is read while the count is at most the
\* declared total.
ReadTokensLate ==
    /\ pc = "tokens"
    /\ Len(item.fields) <= total(file.blocks[1])
    /\ item' = [item EXCEPT !.fields = @ \o split(readline(source, pos))]
    /\ pos' = advance(source, pos, 1)
    /\ UNCHANGED <<info_cache, app, server, file, source, pc, result, first_run, seen_axes, horizontal_axes,
                   vertical_axis, self, site, yielded, close, closed>>

\* The count is below the declared total: read a line, split it on
\* whitespace, append the tokens.
ReadTokens ==
    /\ pc = "tokens"
    /\ Len(item.fields) < total(file.blocks[1])
    /\ item' = [item EXCEPT !.fields = @ \o split(readline(source, pos))]
    /\ pos' = advance(source, pos, 1)
    /\ UNCHANGED <<info_cache, app, server, file, source, pc, result, first_run, seen_axes, horizontal_axes,
                   vertical_axis, self, site, yielded, close, closed>>

\* The count has reached the declared total: stop.
StopTokens ==
    /\ pc = "tokens"
    /\ ~(Len(item.fields) < total(file.blocks[1]))
    /\ pc' = "done"
    /\ UNCHANGED <<info_cache, app, server, file, source, pos, item, result, first_run, seen_axes,
                   horizontal_axes, vertical_axis, self, site, yielded, close, closed>>

NextTokens ==
    \/ ReadTokens
    \/ StopTokens

SpecTokens == InitTokens /\ [][NextTokens]_vars

(***************************************************************************)
(* Server (sm/server.py): the record catalogue, the cache directory and    *)
(* the FTP connection.  The variable server holds the instance and the     *)
(* call in progress: connection is the _ftpconnection attribute (id 0: no  *)
(* attribute), cache the files of the cache directory, call the arguments  *)
(* of the operation last started and previous the operation before it,     *)
(* before and held the cache directory and the connection as that call     *)
(* found them, ftp the commands the call has sent to the FTP server and    *)
(* replies what each met with, opened the arguments of the Record it       *)
(* returned and exception what it raised.                                  *)
(***************************************************************************)
MaxCalls == 3

Events == {1, 2}

SiteCodes == {"CBGS", "cbgs", "SBGC"}

upper_char(c) ==
    CASE c = "b" -> "B" [] c = "c" -> "C" [] c = "g" -> "G" [] c = "s" -> "S"
      [] OTHER -> c

\* str.upper()
RECURSIVE upper(_)
upper(s) == IF Len(s) = 0 THEN "" ELSE upper_char(char(s, 1)) \o upper(SubSeq(s, 2, Len(s)))

\* str.startswith(prefix)
startswith(s, prefix) == Len(s) >= Len(prefix) /\ SubSeq(s, 1, Len(prefix)) = prefix

\* The rows of the records table.
Records ==
    {[event_id |-> 1, site |-> "CBGS", ftp_directory |-> "/strong/2010", filename |-> "a.V1A"],
     [event_id |-> 2, site |-> "SBGC", ftp_directory |-> "/strong/2011", filename |-> "b.V1A"]}

Filenames == {r.filename : r \in Records}

NoRow == [event_id |-> 0, site |-> "", ftp_directory |-> "", filename |-> ""]

\* select ftp_directory, filename from records where event_id=? and site=?
\* and fetchone(): the row, or NoRow for None.
fetchone(event, site_code) ==
    LET found == {r \in Records : r.event_id = event /\ r.site = site_code}
    IN IF found = {} THEN NoRow ELSE CHOOSE r \in found : TRUE

\* The codes of the sites table.
SitesTable == {"CBGS"}

EmptySiteInfo ==
    [name |-> Unset(""), latitude |-> Unset(degrees(0, 0, 0)),
     longitude |-> Unset(degrees(0, 0, 0)),
     longitudinal_axis |-> Unset(0), local_gravity |-> Unset(Norm(0, 0))]

\* get_site_info(site), with NoSuchSite caught as get_record catches it.
get_site_info(site_code) == IF site_code \in SitesTable THEN SiteInfo ELSE EmptySiteInfo

\* What the FTP server sends for RETR filename, in the pieces the callback
\* is called with.
Remote(filename) == <<<<filename, 1>>, <<filename, 2>>>>

\* What an earlier download of the file left in the cache directory.
Earlier(filename) == <<<<filename, 0>>>>

Absent == [exists |-> FALSE, data |-> <<>>]

Stored(data) == [exists |-> TRUE, data |-> data]

NoConnection == [id |-> 0, logged_in |-> FALSE]

hasattr(conn) == conn.id # 0

NoException == [type |-> "none", args |-> <<>>]

NoSuchRecord(event, site_code) == [type |-> "NoSuchRecord", args |-> <<event, site_code>>]

error_temp(text) == [type |-> "error_temp", args |-> <<text>>]

error_perm(text) == [type |-> "error_perm", args |-> <<text>>]

\* What sendcmd('NOOP') or quit() may do: return, or raise.
Probes == {NoException, error_temp("421 Timeout"), error_temp("450 Busy"),
           error_perm("500 Unknown")}

Answers == {NoException, error_perm("550 Failed")}

NoCall == [op |-> "none", event |-> 0, given |-> "", site |-> "", skip_cache |-> FALSE]

NoOpened == [called |-> FALSE, site_info |-> EmptySiteInfo, content |-> Absent]

\* A variant of connect_ftp: any temporary error of the probe has the
\* connection replaced.
connect_ftp_anew(conn, id, probe, dial, login) ==
    LET noop == IF hasattr(conn) THEN <<"NOOP">> ELSE <<>>
        said == IF hasattr(conn) THEN <<probe>> ELSE <<>>
        timed_out == hasattr(conn) /\ probe.type = "error_temp"
        kept == IF timed_out THEN NoConnection ELSE conn
    IN IF hasattr(conn) /\ probe # NoException /\ ~timed_out
       THEN [connection |-> conn, raised |-> probe, sent |-> noop, heard |-> said]
       ELSE IF hasattr(kept)
       THEN [connection |-> kept, raised |-> NoException, sent |-> noop, heard |-> said]
       ELSE IF dial # NoException
       THEN [connection |-> kept, raised |-> dial, sent |-> noop \o <<"connect">>,
             heard |-> said \o <<dial>>]
       ELSE IF login # NoException
       THEN [connection |-> [id |-> id, logged_in |-> FALSE], raised |-> login,
             sent |-> noop \o <<"connect", "USER">>, heard |-> said \o <<dial, login>>]
       ELSE [connection |-> [id |-> id, logged_in |-> TRUE], raised |-> NoException,
             sent |-> noop \o <<"connect", "USER">>, heard |-> said \o <<dial, login>>]

\* connect_ftp() on a Server holding conn: probe is what NOOP does, dial
\* what ftplib.FTP(host) does, login what login() does; id names the new
\* connection object.  sent are the commands and heard what each met with.
connect_ftp(conn, id, probe, dial, login) ==
    LET noop == IF hasattr(conn) THEN <<"NOOP">> ELSE <<>>
        said == IF hasattr(conn) THEN <<probe>> ELSE <<>>
        timed_out == hasattr(conn) /\ probe.type = "error_temp"
                        /\ startswith(probe.args[1], "421")
        kept == IF timed_out THEN NoConnection ELSE conn
    IN IF hasattr(conn) /\ probe # NoException /\ ~timed_out
       THEN [connection |-> conn, raised |-> probe, sent |-> noop, heard |-> said]
       ELSE IF hasattr(kept)
       THEN [connection |-> kept, raised |-> NoException, sent |-> noop, heard |-> said]
       ELSE IF dial # NoException
       THEN [connection |-> kept, raised |-> dial, sent |-> noop \o <<"connect">>,
             heard |-> said \o <<dial>>]
       ELSE IF login # NoException
       THEN [connection |-> [id |-> id, logged_in |-> FALSE], raised |-> login,
             sent |-> noop \o <<"connect", "USER">>, heard |-> said \o <<dial, login>>]
       ELSE [connection |-> [id |-> id, logged_in |-> TRUE], raised |-> NoException,
             sent |-> noop \o <<"connect", "USER">>, heard |-> said \o <<dial, login>>]

\* A variant of disconnect_ftp: what quit() raises is not caught.
disconnect_ftp_loud(conn, quit) ==
    IF hasattr(conn) /\ quit # NoException
    THEN [connection |-> conn, raised |-> quit, sent |-> <<"QUIT">>, heard |-> <<quit>>]
    ELSE [connection |-> NoConnection, raised |-> NoException,
          sent |-> IF hasattr(conn) THEN <<"QUIT">> ELSE <<>>,
          heard |-> IF hasattr(conn) THEN <<quit>> ELSE <<>>]

\* disconnect_ftp() on a Server holding conn: quit is what quit() does.
disconnect_ftp(conn, quit) ==
    [connection |-> NoConnection, raised |-> NoException,
     sent |-> IF hasattr(conn) THEN <<"QUIT">> ELSE <<>>,
     heard |-> IF hasattr(conn) THEN <<quit>> ELSE <<>>]

\* A variant of must_download: the cache file decides alone.
must_download_uncached(skip_cache, isfile) == ~isfile

\* if skip_cache or not os.path.isfile(cache_filename)
must_download(skip_cache, isfile) == skip_cache \/ ~isfile

InitServer ==
    /\ file = [blocks |-> <<>>, defect |-> NoDefect]
    /\ source = <<>>
    /\ pos = 0
    /\ pc = "none"
    /\ item = NoItem
    /\ result = "none"
    /\ first_run = TRUE
    /\ seen_axes = {}
    /\ horizontal_axes = 0
    /\ vertical_axis = FALSE
    /\ self = NoSelf
    /\ site = SiteInfo
    /\ yielded = <<>>
    /\ close = FALSE
    /\ closed = FALSE
    /\ app = NoApplication
    /\ info_cache = NoTables
    /\ \E cache \in [Filenames -> {"absent", "earlier"}] :
          server = [pc |-> "idle", connection |-> NoConnection, calls |-> 0,
                    cache |-> [n \in Filenames |->
                                  IF cache[n] = "absent" THEN Absent ELSE Stored(Earlier(n))],
                    call |-> NoCall, previous |-> NoCall.op, row |-> NoRow,
                    before |-> [n \in Filenames |-> Absent], held |-> NoConnection,
                    ftp |-> <<>>, replies |-> <<>>, opened |-> NoOpened,
                    exception |-> NoException]

\* A call starts: what the previous one left behind is forgotten.
started(op, event, site_code, skip_cache) ==
    [server EXCEPT !.calls = @ + 1,
                   !.call = [op |-> op, event |-> event, given |-> site_code,
                             site |-> upper(site_code), skip_cache |-> skip_cache],
                   !.previous = server.call.op,
                   !.row = NoRow, !.before = server.cache, !.held = server.connection,
                   !.ftp = <<>>, !.replies = <<>>,
                   !.opened = NoOpened, !.exception = NoException]

\* A variant of GetRecord: the connection is made before the row is looked
\* up.
GetRecordConnected ==
    /\ server.pc = "idle"
    /\ server.calls < MaxCalls
    /\ \E event \in Events, site_code \in SiteCodes, skip_cache \in BOOLEAN :
          LET s == started("get_record", event, site_code, skip_cache)
              row == fetchone(event, upper(site_code))
              c == connect_ftp(server.connection, s.calls, NoException, NoException,
                               NoException)
          IN server' =
                IF row = NoRow
                THEN [s EXCEPT !.exception = NoSuchRecord(event, upper(site_code)),
                               !.connection = c.connection, !.ftp = c.sent,
                               !.replies = c.heard]
                ELSE [s EXCEPT !.row = row,
                               !.pc = IF must_download(skip_cache,
                                                       server.cache[row.filename].exists)
                                      THEN "connect" ELSE "site_info"]
    /\ UNCHANGED <<record_vars, app, info_cache>>

\* get_record(event, site, skip_cache) up to the decision to download: the
\* site is uppercased and the row looked up; without a row NoSuchRecord is
\* raised.
GetRecord ==
    /\ server.pc = "idle"
    /\ server.calls < MaxCalls
    /\ \E event \in Events, site_code \in SiteCodes, skip_cache \in BOOLEAN :
          LET s == started("get_record", event, site_code, skip_cache)
              row == fetchone(event, upper(site_code))
          IN server' =
                IF row = NoRow
                THEN [s EXCEPT !.exception = NoSuchRecord(event, upper(site_code))]
                ELSE [s EXCEPT !.row = row,
                               !.pc = IF must_download(skip_cache,
                                                       server.cache[row.filename].exists)
                                      THEN "connect" ELSE "site_info"]
    /\ UNCHANGED <<record_vars, app, info_cache>>

\* self.connect_ftp() in get_record.
Connect ==
    /\ server.pc = "connect"
    /\ \E probe \in Probes, dial \in Answers, login \in Answers :
          LET c == connect_ftp(server.connection, server.calls, probe, dial, login)
          IN server' = [server EXCEPT !.connection = c.connection,
                                      !.ftp = @ \o c.sent,
                                      !.replies = @ \o c.heard,
                                      !.exception = c.raised,
                                      !.pc = IF c.raised = NoException THEN "cwd" ELSE "idle"]
    /\ UNCHANGED <<record_vars, app, info_cache>>

\* self._ftpconnection.cwd(ftp_directory)
Cwd ==
    /\ server.pc = "cwd"
    /\ \E answer \in Answers :
          server' = [server EXCEPT !.ftp = Append(@, "CWD"),
                                   !.replies = Append(@, answer),
                                   !.exception = answer,
                                   !.pc = IF answer = NoException THEN "open" ELSE "idle"]
    /\ UNCHANGED <<record_vars, app, info_cache>>

\* f = open(cache_filename, 'wb'): the file exists and is empty; retrbinary
\* sends RETR.
Open ==
    /\ server.pc = "open"
    /\ server' = [server EXCEPT !.cache[server.row.filename] = Stored(<<>>),
                                !.ftp = Append(@, "RETR"),
                                !.pc = "retr"]
    /\ UNCHANGED <<record_vars, app, info_cache>>

\* retrbinary calls f.write with the next piece.
Write ==
    /\ server.pc = "retr"
    /\ LET name == server.row.filename
           n == Len(server.cache[name].data)
       IN /\ n < Len(Remote(name))
          /\ server' = [server EXCEPT !.cache[name] = Stored(Append(@.data, Remote(name)[n + 1]))]
    /\ UNCHANGED <<record_vars, app, info_cache>>

\* A variant of Broken: the file is closed and left where it is.
BrokenLeft ==
    /\ server.pc = "retr"
    /\ server' = [server EXCEPT !.replies = Append(@, error_temp("426 Aborted")),
                                !.exception = error_temp("426 Aborted"),
                                !.pc = "idle"]
    /\ UNCHANGED <<record_vars, app, info_cache>>

\* retrbinary raises: the file is closed and removed and the exception
\* propagates.
Broken ==
    /\ server.pc = "retr"
    /\ server' = [server EXCEPT !.cache[server.row.filename] = Absent,
                                !.replies = Append(@, error_temp("426 Aborted")),
                                !.exception = error_temp("426 Aborted"),
                                !.pc = "idle"]
    /\ UNCHANGED <<record_vars, app, info_cache>>

\* retrbinary returns after the last piece: f.close().
Retrieved ==
    /\ server.pc = "retr"
    /\ Len(server.cache[server.row.filename].data) = Len(Remote(server.row.filename))
    /\ server' = [server EXCEPT !.replies = Append(@, NoException), !.pc = "site_info"]
    /\ UNCHANGED <<record_vars, app, info_cache>>

\* The site is looked up and Record(site_info, cache_filename, ...) built
\* on what the cache file holds.
Return ==
    /\ server.pc = "site_info"
    /\ server' = [server EXCEPT !.opened = [called |-> TRUE,
                                            site_info |-> get_site_info(server.call.site),
                                            content |-> server.cache[server.row.filename]],
                                !.pc = "idle"]
    /\ UNCHANGED <<record_vars, app, info_cache>>

\* connect_ftp(), called on its own.
ConnectFtp ==
    /\ server.pc = "idle"
    /\ server.calls < MaxCalls
    /\ \E probe \in Probes, dial \in Answers, login \in Answers :
          LET s == started("connect_ftp", 0, "", FALSE)
              c == connect_ftp(server.connection, s.calls, probe, dial, login)
          IN server' = [s EXCEPT !.connection = c.connection, !.ftp = c.sent,
                                 !.replies = c.heard, !.exception = c.raised]
    /\ UNCHANGED <<record_vars, app, info_cache>>

\* disconnect_ftp(), called on its own.
DisconnectFtp ==
    /\ server.pc = "idle"
    /\ server.calls < MaxCalls
    /\ \E quit \in Probes :
          LET s == started("disconnect_ftp", 0, "", FALSE)
              c == disconnect_ftp(server.connection, quit)
          IN server' = [s EXCEPT !.connection = c.connection, !.ftp = c.sent,
                                 !.replies = c.heard, !.exception = c.raised]
    /\ UNCHANGED <<record_vars, app, info_cache>>

NextServer ==
    \/ GetRecord
    \/ Connect
    \/ Cwd
    \/ Open
    \/ Write
    \/ Broken
    \/ Retrieved
    \/ Return
    \/ ConnectFtp
    \/ DisconnectFtp

SpecServer == InitServer /\ [][NextServer]_vars

(***************************************************************************)
(* Application (visualiser/wsgi.py): the variable app holds the path of   *)
(* the request last handled, the status the response was started with and  *)
(* what was returned.                                                      *)
(***************************************************************************)
MaxPieces == 4

\* Request paths are made of up to MaxPieces of these.
Pieces == {"/events", "/media/", "/2011", "/12", "/x", "x", "../", "media2"}

RECURSIVE PathsOf(_)
PathsOf(n) == IF n = 0 THEN {""} ELSE {p \o q : p \in PathsOf(n - 1), q \in Pieces \cup {""}}

Paths == PathsOf(MaxPieces)

\* self.media_path, and the files there are.
media_path == "/srv/media"

Disk == {"/srv/media/x", "/srv/media/2011/x", "/srv/media2", "/srv/x", "/x"}

\* str.split(sep), for a separator of one character.
RECURSIVE split_on(_, _)
split_on(s, sep) ==
    LET at == {i \in 1..Len(s) : char(s, i) = sep}
        i == CHOOSE k \in at : \A j \in at : k <= j
    IN IF at = {} THEN <<s>>
       ELSE <<SubSeq(s, 1, i - 1)>> \o split_on(SubSeq(s, i + 1, Len(s)), sep)

\* The loop of posixpath.normpath over the components.
RECURSIVE collapse(_, _, _)
collapse(comps, new_comps, rooted) ==
    IF comps = <<>> THEN new_comps
    ELSE LET comp == Head(comps)
             kept == IF comp \in {"", "."} THEN new_comps
                     ELSE IF comp # ".." \/ (~rooted /\ new_comps = <<>>)
                             \/ (new_comps # <<>> /\ new_comps[Len(new_comps)] = "..")
                     THEN Append(new_comps, comp)
                     ELSE IF new_comps # <<>> THEN SubSeq(new_comps, 1, Len(new_comps) - 1)
                     ELSE new_comps
         IN collapse(Tail(comps), kept, rooted)

\* os.path.normpath(path)
normpath(path) ==
    LET slashes == IF ~startswith(path, "/") THEN ""
                   ELSE IF startswith(path, "//") /\ ~startswith(path, "///") THEN "//"
                   ELSE "/"
        joined == slashes \o join(collapse(split_on(path, "/"), <<>>, slashes # ""), "/")
    IN IF joined = "" THEN "." ELSE joined

\* os.path.abspath(os.path.join(a, b)) for an absolute a.
abspath_join(a, b) ==
    normpath(IF startswith(b, "/") THEN b
             ELSE IF a = "" \/ char(a, Len(a)) = "/" THEN a \o b
             ELSE a \o "/" \o b)

\* os.path.commonprefix((a, b)): the longest common leading string,
\* character by character.
commonprefix(a, b) ==
    LET same == {n \in 0..Min(Len(a), Len(b)) : SubSeq(a, 1, n) = SubSeq(b, 1, n)}
    IN SubSeq(a, 1, CHOOSE n \in same : \A m \in same : m <= n)

Response(status, kind, args) == [status |-> status, kind |-> kind, args |-> args]

\* serve_events(path, start_response)
serve_events(path) ==
    LET chunks == SelectSeq(split_on(path, "/"), LAMBDA c : c # "")
    IN IF Len(chunks) = 0 THEN Response(200, "years", <<>>)
       ELSE IF Len(chunks) = 1
       THEN IF int_ok(chunks[1]) THEN Response(200, "months", <<int(chunks[1])>>)
            ELSE Response(404, "File not found", <<>>)
       ELSE IF Len(chunks) = 2
       THEN IF int_ok(chunks[1]) /\ int_ok(chunks[2])
            THEN Response(200, "events", <<int(chunks[1]), int(chunks[2])>>)
            ELSE Response(404, "File not found", <<>>)
       ELSE Response(404, "File not found", <<>>)

\* serve_media(path, start_response)
serve_media(path) ==
    LET filename == abspath_join(media_path, path)
    IN IF commonprefix(media_path, filename) # media_path
       THEN Response(403, "You do not have permission to access this file.", <<filename>>)
       ELSE IF filename \notin Disk THEN Response(404, "File not found", <<filename>>)
       ELSE Response(200, "file", <<filename>>)

\* The response to the request in hand.
Answered(to, response) ==
    /\ app' = [app EXCEPT !.pc = "answered", !.to = to, !.response = response]
    /\ UNCHANGED <<record_vars, server, info_cache>>

\* A request for one of the paths is in hand.
InitWeb ==
    /\ file = [blocks |-> <<>>, defect |-> NoDefect]
    /\ source = <<>>
    /\ pos = 0
    /\ pc = "none"
    /\ item = NoItem
    /\ result = "none"
    /\ first_run = TRUE
    /\ seen_axes = {}
    /\ horizontal_axes = 0
    /\ vertical_axis = FALSE
    /\ self = NoSelf
    /\ site = SiteInfo
    /\ yielded = <<>>
    /\ close = FALSE
    /\ closed = FALSE
    /\ server = NoServer
    /\ info_cache = NoTables
    /\ \E path \in Paths :
          app = [pc |-> "waiting", path |-> path, to |-> "", response |-> Response(0, "", <<>>)]

\* __call__ for a path that starts with /events.
ServeEvents ==
    /\ app.pc = "waiting"
    /\ startswith(app.path, "/events")
    /\ Answered("serve_events", serve_events(PySlice(app.path, 8, Len(app.path))))

\* __call__ for a path that starts with /media/.
ServeMedia ==
    /\ app.pc = "waiting"
    /\ ~startswith(app.path, "/events")
    /\ startswith(app.path, "/media/")
    /\ Answered("serve_media", serve_media(PySlice(app.path, 7, Len(app.path))))

\* __call__ for any other path.
NotFound ==
    /\ app.pc = "waiting"
    /\ ~startswith(app.path, "/events")
    /\ ~startswith(app.path, "/media/")
    /\ Answered("", Response(404, "File not found", <<>>))

NextWeb ==
    \/ ServeEvents
    \/ ServeMedia
    \/ NotFound

SpecWeb == InitWeb /\ [][NextWeb]_vars

(***************************************************************************)
(* The info cache (sm/server.py): update_events and update_sites.  The     *)
(* variable info_cache holds the events, records and sites tables, seq the *)
(* last id the events table gave out, runs the number of updates made and  *)
(* last the update last made, with what it downloaded.                     *)
(***************************************************************************)
MaxRuns == 2

\* '{0:02d}'.format(n)
two(n) == IF n < 10 THEN "0" \o str(n) ELSE str(n)

\* The events the FTP server may hold, and the sites with a record of each.
Happened ==
    {[y |-> 2010, m |-> 12, d |-> 25, t |-> "101500", sites |-> {"WEL"}],
     [y |-> 2011, m |-> 2, d |-> 21, t |-> "235142", sites |-> {"CBGS", "WEL"}],
     [y |-> 2011, m |-> 2, d |-> 22, t |-> "000450", sites |-> {"CBGS"}]}

base_dir == "/strong/processed/Proc"

\* The directory of an event on the FTP server, and the files in it.
directory(e) ==
    base_dir \o "/" \o str(e.y) \o "/" \o two(e.m) \o "_Prelim/"
        \o str(e.y) \o "-" \o two(e.m) \o "-" \o two(e.d) \o "_" \o e.t

stored(e) ==
    {directory(e) \o "/Vol1/data/" \o str(e.y) \o two(e.m) \o two(e.d) \o "_" \o e.t \o "_"
        \o c \o ".V1A" : c \in e.sites}

\* The files of a server holding the events of tree; a directory the
\* update does not handle is always there.
tree_files(tree) == UNION {stored(e) : e \in tree} \cup {base_dir \o "/2011/03_Final/x"}

\* cwd(dir) and nlst(): the names in a directory.
nlst(tree, dir) ==
    {split_on(SubSeq(f, Len(dir) + 2, Len(f)), "/")[1] :
        f \in {g \in tree_files(tree) : startswith(g, dir \o "/")}}

\* sorted(): the numbers of a set in increasing order.
RECURSIVE sorted(_)
sorted(S) ==
    IF S = {} THEN <<>>
    ELSE LET least == CHOOSE x \in S : \A y \in S : x <= y
         IN <<least>> \o sorted(S \ {least})

\* The names of a listing, in the order the server gives them.
RECURSIVE listed(_)
listed(S) ==
    IF S = {} THEN <<>>
    ELSE LET first == CHOOSE x \in S : TRUE IN <<first>> \o listed(S \ {first})

\* A variant of delete_events: the records of the events stay.
delete_events_only(db, year, month) ==
    [db EXCEPT !.events = {r \in @ : ~(r.month = month /\ r.year = year)}]

\* delete from events where month=? and year=?, with the records of the
\* events deleted going with them (on delete cascade, foreign_keys = ON).
delete_events(db, year, month) ==
    LET gone == {r.id : r \in {q \in db.events : q.month = month /\ q.year = year}}
    IN [db EXCEPT !.events = {r \in @ : r.id \notin gone},
                  !.records = {r \in @ : r.event_id \notin gone}]

\* The body of the loop over the event directories of a month.
RECURSIVE insert_events(_, _, _, _)
insert_events(db, tree, month_dir, events) ==
    IF events = <<>> THEN db
    ELSE LET event == Head(events)
             parts == split_on(event, "_")
             date == split_on(parts[1], "-")
             time == parts[2]
             event_id == db.seq + 1
             data_dir == month_dir \o "/" \o event \o "/Vol1/data"
             row == [id |-> event_id, year |-> int(date[1]), month |-> int(date[2]),
                     day |-> int(date[3]), hour |-> int(PySlice(time, 0, 2)),
                     minute |-> int(PySlice(time, 2, 4)), second |-> int(PySlice(time, 4, 6))]
             sites == {[event_id |-> event_id, site |-> PySlice(s, 16, Len(s) - 4),
                        ftp_directory |-> data_dir, filename |-> s] :
                          s \in nlst(tree, data_dir)}
         IN insert_events([db EXCEPT !.events = @ \cup {row}, !.records = @ \cup sites,
                                     !.seq = event_id],
                          tree, month_dir, Tail(events))

\* The body of the loop over the months of a year.
RECURSIVE update_months(_, _, _, _)
update_months(db, tree, year, months) ==
    IF months = <<>> THEN db
    ELSE LET month == Head(months)
             month_dir == base_dir \o "/" \o str(year) \o "/" \o two(month) \o "_Prelim"
         IN update_months(insert_events(delete_events(db, year, month), tree, month_dir,
                                        listed(nlst(tree, month_dir))),
                          tree, year, Tail(months))

\* The loop of update_events over the years, for since = (year, month).
RECURSIVE update_years(_, _, _, _)
update_years(db, tree, since, years) ==
    IF years = <<>> THEN db
    ELSE LET year == Head(years)
             raw == nlst(tree, base_dir \o "/" \o str(year))
             prelim == {month \in raw : Len(month) >= 7
                                        /\ SubSeq(month, Len(month) - 6, Len(month)) = "_Prelim"}
             months == {int(PySlice(month, 0, 2)) : month \in prelim}
             wanted == IF year = since[1] THEN {m \in months : m >= since[2]} ELSE months
         IN update_years(update_months(db, tree, year, sorted(wanted)), tree, since,
                         Tail(years))

\* update_events(since) against an FTP server holding the events of tree.
update_events(db, tree, since) ==
    LET years == {int(year) : year \in nlst(tree, base_dir)}
    IN update_years(db, tree, since, sorted({year \in years : year >= since[1]}))

MaxEntries == 3

\* The lists of sites the website may hold, of up to MaxEntries entries.
Entries ==
    {[Code |-> "CBGS", Name |-> "Botanic"], [Code |-> "CBGS", Name |-> "Gardens"],
     [Code |-> "WEL", Name |-> "Wellington"]}

Listings == UNION {[1..n -> Entries] : n \in 0..MaxEntries}

\* What urlopen gives for a list: a note, the names of the columns and a
\* line for each entry.
csv(list) ==
    <<"filtered", "Code,Name">> \o [i \in 1..Len(list) |-> list[i].Code \o "," \o list[i].Name]

\* A variant of insert_sites: an entry takes the place of an earlier one of
\* its code.
RECURSIVE insert_sites_over(_, _, _, _)
insert_sites_over(sites, seen, header, entries) ==
    IF entries = <<>> THEN sites
    ELSE LET cols == split_on(Head(entries), ",")
             entry == [name \in {header[i] : i \in 1..Len(header)} |->
                         cols[CHOOSE i \in 1..Len(header) : header[i] = name]]
             row == [code |-> entry["Code"], name |-> entry["Name"]]
         IN insert_sites_over({r \in sites : r.code # row.code} \cup {row},
                              seen \cup {entry["Code"]}, header, Tail(entries))

\* The loop of update_sites over the entries csv.DictReader makes of the
\* lines under the header: sites is the table and seen the codes met.
RECURSIVE insert_sites(_, _, _, _)
insert_sites(sites, seen, header, entries) ==
    IF entries = <<>> THEN sites
    ELSE LET cols == split_on(Head(entries), ",")
             entry == [name \in {header[i] : i \in 1..Len(header)} |->
                         cols[CHOOSE i \in 1..Len(header) : header[i] = name]]
             row == [code |-> entry["Code"], name |-> entry["Name"]]
         IN IF entry["Code"] \in seen THEN insert_sites(sites, seen, header, Tail(entries))
            ELSE insert_sites(sites \cup {row}, seen \cup {entry["Code"]}, header, Tail(entries))

NoUpdate == [op |-> "none"]

InitUpdate ==
    /\ file = [blocks |-> <<>>, defect |-> NoDefect]
    /\ source = <<>>
    /\ pos = 0
    /\ pc = "none"
    /\ item = NoItem
    /\ result = "none"
    /\ first_run = TRUE
    /\ seen_axes = {}
    /\ horizontal_axes = 0
    /\ vertical_axis = FALSE
    /\ self = NoSelf
    /\ site = SiteInfo
    /\ yielded = <<>>
    /\ close = FALSE
    /\ closed = FALSE
    /\ server = NoServer
    /\ app = NoApplication
    /\ info_cache = [pc |-> "idle", events |-> {}, records |-> {}, seq |-> 0, sites |-> {},
                     runs |-> 0, last |-> NoUpdate]

\* update_events(since), from the creation of the tables to the last
\* commit.
UpdateEvents ==
    /\ info_cache.runs < MaxRuns
    /\ \E tree \in SUBSET Happened, since \in {<<1950, 1>>, <<2011, 1>>, <<2011, 3>>} :
          info_cache' = [update_events(info_cache, tree, since) EXCEPT
                            !.runs = @ + 1,
                            !.last = [op |-> "update_events", tree |-> tree, since |-> since,
                                      replaced |-> info_cache.events]]
    /\ UNCHANGED <<record_vars, server, app>>

\* update_sites(): the table is emptied, the list downloaded, its first
\* line skipped and the entries inserted.
UpdateSites ==
    /\ info_cache.runs < MaxRuns
    /\ \E list \in Listings :
          LET raw_csv == csv(list)
          IN info_cache' = [info_cache EXCEPT
                               !.sites = insert_sites({}, {}, split_on(raw_csv[2], ","),
                                                      SubSeq(raw_csv, 3, Len(raw_csv))),
                               !.runs = @ + 1,
                               !.last = [op |-> "update_sites", list |-> list,
                                         replaced |-> info_cache.sites]]
    /\ UNCHANGED <<record_vars, server, app>>

NextUpdate ==
    \/ UpdateEvents
    \/ UpdateSites

SpecUpdate == InitUpdate /\ [][NextUpdate]_vars

(***************************************************************************)
(* Properties.  axis_at(k) is the axis of the k-th yielded component; the  *)
(* components a Record is built from are the first occurrences of their    *)
(* axes.                                                                   *)
(***************************************************************************)
axis_at(k) == yielded[k].header.axis

FirstOccurrences ==
    {k \in 1..Len(yielded) : \A j \in 1..(k - 1) : axis_at(j) # axis_at(k)}

HorizontalsYielded == {k \in FirstOccurrences : axis_at(k) # VerticalAxis}

VerticalsYielded == {k \in FirstOccurrences : axis_at(k) = VerticalAxis}

Lowest(S) == CHOOSE k \in S : \A j \in S : k <= j

\* The sequence holds a vertical channel and two horizontal channels of
\* distinct axes.
Complete == VerticalsYielded # {} /\ Cardinality(HorizontalsYielded) >= 2

\* The decoder raised no error of its own in this run.
Decoded == item.kind \in {"ok", "EOFError"}

\* C1: Record construction succeeds only if the decoded channels hold a
\* vertical channel and two horizontal channels of distinct axes, and in
\* every other case it ends by raising TooFewComponents.
TooFewComponentsOtherwise ==
    (pc = "done" /\ Decoded) =>
        /\ result = "Record" => Complete
        /\ ~Complete => result = "TooFewComponents"

\* A file of a vertical, two horizontal and one extra horizontal block, all
\* of different axes.
FourBlocks ==
    /\ Len(file.blocks) = 4
    /\ \A p, q \in 1..4 : p # q => file.blocks[p].axis # file.blocks[q].axis
    /\ \E p \in 1..3 : file.blocks[p].axis = VerticalAxis

\* C2: once the vertical and two horizontal channels are accepted nothing
\* more is pulled from the decoder or read from the stream, and for a file of
\* a vertical, two horizontal and one extra horizontal block the cursor then
\* sits at the start of the fourth block.
ShortCircuitCursor ==
    /\ (vertical_axis /\ horizontal_axes = 2) => pc = "done"
    /\ (result = "Record" /\ FourBlocks) =>
            Len(yielded) = 3 /\ pos = block_start(file, 4)

\* The component in hand repeats the axis of an earlier one.
Repeated ==
    /\ pc = "body"
    /\ item.kind = "ok"
    /\ \E j \in 1..(Len(yielded) - 1) : axis_at(j) = item.header.axis

\* C3: a channel whose axis equals that of an earlier channel of the file
\* leaves the acceleration grid, the horizontal count and the vertical flag
\* unchanged.
DuplicateAxisIgnored ==
    [][Repeated =>
        /\ self'.acceleration = self.acceleration
        /\ horizontal_axes' = horizontal_axes
        /\ vertical_axis' = vertical_axis]_vars

\* A Record was produced from a file in which a repeated axis came before
\* the third accepted channel.
DuplicateAxisSkipped ==
    /\ result = "Record"
    /\ \E k \in 1..Len(yielded) : k \notin FirstOccurrences

\* C4: when a Record is produced from a vertical channel v and the first two
\* horizontal channels of distinct axes, a1 at bearing t1 and a2 at bearing
\* t2, then at every sample index row0 = a1*cos(t1) + a2*cos(t2), row1 =
\* a1*sin(t1) + a2*sin(t2) and row2 = v.  (Indices are those the channels
\* have: numpy repeats a channel of one sample along its row, and a vertical
\* channel without samples gives a row of nan.)
RealignmentFormula ==
    result = "Record" =>
        LET h1 == Lowest(HorizontalsYielded)
            h2 == Lowest(HorizontalsYielded \ {h1})
            a1 == yielded[h1].data.acceleration.val
            a2 == yielded[h2].data.acceleration.val
            v == yielded[Lowest(VerticalsYielded)].data.acceleration
        IN \A i \in 1..self.data_length :
              /\ (i <= Len(a1) /\ i <= Len(a2)) =>
                    /\ self.acceleration[1][i] =
                          fadd(fmul(a1[i], cos(axis_at(h1))), fmul(a2[i], cos(axis_at(h2))))
                    /\ self.acceleration[2][i] =
                          fadd(fmul(a1[i], sin(axis_at(h1))), fmul(a2[i], sin(axis_at(h2))))
              /\ (v.present /\ i <= Len(v.val)) => self.acceleration[3][i] = plain(v.val[i])

\* A Record from horizontals at 30 and 90 degrees and a vertical, each of
\* NSamples samples.
RealignedObliquely ==
    /\ result = "Record"
    /\ {axis_at(k) : k \in HorizontalsYielded} = {30, 90}
    /\ \A k \in FirstOccurrences :
          yielded[k].data.acceleration.present
          /\ Len(yielded[k].data.acceleration.val) = NSamples
    /\ self.data_length = NSamples

\* A Record from a vertical channel and horizontals at 0 and 90 degrees.
Orthogonal ==
    /\ result = "Record"
    /\ {axis_at(k) : k \in HorizontalsYielded} = {0, 90}

\* The sample x as a grid entry holding exactly x.
exactly(x) == IF x.m = 0 THEN <<>> ELSE plain(x)

\* a0[i], a90[i] and v[i] of an orthogonal Record.
a0(i) == yielded[CHOOSE k \in HorizontalsYielded : axis_at(k) = 0].data.acceleration.val[i]

a90(i) == yielded[CHOOSE k \in HorizontalsYielded : axis_at(k) = 90].data.acceleration.val[i]

\* The indices at which all three channels have a sample.
Common ==
    {i \in 1..self.data_length :
        \A k \in FirstOccurrences :
            yielded[k].data.acceleration.present
            /\ i <= Len(yielded[k].data.acceleration.val)}

\* C5 as stated: for a vertical channel v and horizontals a0 at 0 degrees
\* and a90 at 90 degrees, row0 = a0, row1 = a90 and row2 = v exactly.
OrthogonalIdentity ==
    Orthogonal =>
        \A i \in Common :
            /\ self.acceleration[1][i] = exactly(a0(i))
            /\ self.acceleration[2][i] = exactly(a90(i))
            /\ self.acceleration[3][i] =
                  plain(yielded[Lowest(VerticalsYielded)].data.acceleration.val[i])

\* a90[i] * math.cos(math.radians(90)), which is not zero unless a90[i] is.
leak(i) ==
    IF a90(i).m = 0 THEN <<>>
    ELSE <<[x |-> a90(i), c |-> [kind |-> "tiny", f |-> "cos", deg |-> 90]]>>

\* C5 (amended): row1 = a90 and row2 = v exactly, and row0[i] = a0[i] +
\* a90[i] * cos(radians(90)) with cos(radians(90)) = 6.123233995736766e-17:
\* it is a0[i] where a90[i] is zero or the addend is below half a unit in
\* the last place of a0[i], and differs from a0[i] elsewhere.
OrthogonalNearIdentity ==
    Orthogonal =>
        \A i \in Common :
            /\ self.acceleration[2][i] = exactly(a90(i))
            /\ self.acceleration[3][i] =
                  plain(yielded[Lowest(VerticalsYielded)].data.acceleration.val[i])
            /\ self.acceleration[1][i] =
                  (IF leak(i) = <<>> THEN exactly(a0(i))
                   ELSE IF a0(i).m = 0 THEN leak(i)
                   ELSE IF absorbs(a0(i), a90(i)) THEN exactly(a0(i))
                   ELSE IF axis_at(Lowest(HorizontalsYielded)) = 0
                        THEN exactly(a0(i)) \o leak(i)
                        ELSE leak(i) \o exactly(a0(i)))
            /\ (self.acceleration[1][i] = exactly(a0(i)))
                  <=> (a90(i).m = 0 \/ (a0(i).m # 0 /\ absorbs(a0(i), a90(i))))

\* An orthogonal Record with one sample at which row0 is a0 and another at
\* which it is not.
OrthogonalLeak ==
    /\ Orthogonal
    /\ \E i \in Common : a0(i).m # 0 /\ a90(i).m # 0 /\ absorbs(a0(i), a90(i))
    /\ \E i \in Common : a90(i).m # 0 /\ self.acceleration[1][i] # exactly(a0(i))

\* C6: when the first read of a block returns no data, parse_component
\* raises EOFError and nothing else, and only then; component_iterator then
\* ends without raising and without yielding a further channel, so the loop
\* of Record.__init__ ends normally.  On an empty stream the very first call
\* gives end-of-input.
EndOfInputIsClean ==
    [][/\ pc = "next" =>
            /\ (readline(source, pos) = "") <=> (item'.kind = "EOFError")
            /\ item'.kind = "EOFError" => yielded' = yielded
       /\ (pc = "body" /\ item.kind = "EOFError") =>
            /\ result' \in {"Record", "TooFewComponents"}
            /\ closed' = close
            /\ yielded' = yielded]_vars

\* The stream ended after its last component and the loop is over.
EndOfInputReached ==
    /\ pc = "done"
    /\ item.kind = "EOFError"
    /\ Len(yielded) = Len(file.blocks)
    /\ Len(yielded) > 0

\* C7: a stream that ends, or has a line with too few fields, before its
\* block's 16 heading lines, 4 integer lines, 6 float lines and declared
\* sample lines are complete makes parse_component raise an error that is not
\* end-of-input, and no (header, data) pair is yielded for the block.
MalformedIsFatal ==
    (Len(file.blocks) = 1 /\ file.defect.kind # "none") =>
        /\ yielded = <<>>
        /\ pc # "next" => item.kind = "ValueError"

\* parse_component has returned the first component of the file.
FirstDecoded == pc = "body" /\ item.kind = "ok" /\ Len(yielded) = 1

\* The accumulated sequence S, as numbers, and S[from .. to) scaled as the
\* decoder scales what it returns (a Python slice: cut off at the end of S).
S == [i \in 1..Len(item.fields) |-> float(item.fields[i])]

part(from, to) ==
    [i \in 1..(Min(to, Len(S)) - Min(from, Len(S))) |-> DivThousand(S[Min(from, Len(S)) + i])]

LengthsAsDeclared ==
    (FirstDecoded /\ file.defect = NoDefect) =>
        LET b == file.blocks[1]
            data == item.data
        IN /\ data.acceleration.present => Len(data.acceleration.val) = b.a
           /\ data.velocity.present => Len(data.velocity.val) = b.v
           /\ data.displacement.present => Len(data.displacement.val) = b.d

\* The non-blank fields of the first n sample lines of the first block, as
\* the file was written.
RECURSIVE written(_)
written(n) ==
    IF n = 0 THEN <<>>
    ELSE written(n - 1) \o SelectSeq(cells(file.blocks[1], 1, n), LAMBDA c : c # Blank)

\* C10: each data line is cut into 10 fields at character offsets 0, 8, ...,
\* 72; a field of whitespace contributes no value, every other field
\* contributes one value in left-to-right order, and a field 999999.9
\* touching its neighbour is still a value of its own.
FixedWidthSlicing ==
    (FirstDecoded /\ file.defect = NoDefect) =>
        item.fields = written(pos - (HeadingLines + 10))

\* A line read as "     0.0     1.0    -2.5999999.9" and blank fields.
AdjacentFieldSliced ==
    /\ FirstDecoded
    /\ file.defect = NoDefect
    /\ file.blocks[1].layout = "full"
    /\ pos = HeadingLines + 10 + 1
    /\ item.fields = <<"     0.0", "     1.0", "    -2.5", "999999.9">>

\* The number of sample lines parse_component has read of the first block.
LinesRead == pos - (HeadingLines + 10)

\* C11: the decoder reads another sample line only while the number of
\* accumulated non-blank fields is below the declared acceleration count:
\* the lines read are the fewest that hold that many fields, whatever the
\* declared total, velocity and displacement counts are, and no line is read
\* once the acceleration count has been reached.
StoppingRule ==
    (FirstDecoded /\ file.defect = NoDefect) =>
        /\ Len(written(LinesRead)) >= file.blocks[1].a
        /\ LinesRead > 0 => Len(written(LinesRead - 1)) < file.blocks[1].a

\* A block of one acceleration, one velocity and one displacement sample, a
\* value to a line, of which one line was read and two were not.
StoppedAtAcceleration ==
    /\ FirstDecoded
    /\ file.defect = NoDefect
    /\ file.blocks[1].layout = "single"
    /\ file.blocks[1].pre = 0 /\ file.blocks[1].a = 1
    /\ file.blocks[1].v = 1 /\ file.blocks[1].d = 1
    /\ LinesRead = 1
    /\ sample_lines(file.blocks[1]) = 3

\* The header fields the first block of the file was written with.
Written == head(file.blocks[1], 1)

\* C12: for every degree/minute/second triple of the epicentre and site
\* lines the decoded latitude is negative, whatever the sign of the raw
\* degree field, with magnitude deg + (min*60 + sec)/3600.
LatitudeNegative ==
    FirstDecoded =>
        /\ item.header.event.latitude.n < 0
        /\ item.header.site.latitude.n < 0
        /\ Abs(item.header.event.latitude.n) = Abs(Written.elat * 3600 + 35 * 60)
        /\ Abs(item.header.site.latitude.n) = Abs(Written.slat * 3600 + 31 * 60 + Written.ssec)
        /\ item.header.event.latitude.d = 3600 /\ item.header.site.latitude.d = 3600

\* The headers the files of HeaderFiles decode to.
HeaderOf == [f \in HeaderFiles |-> parse_component(lines(f), 0).header]

\* C18: header capture is lossless: two well-formed blocks of one channel
\* that differ in a retained header field never decode to the same header.
HeaderLossless ==
    (FirstDecoded /\ file \in HeaderFiles) =>
        \A f \in HeaderFiles : f # file => HeaderOf[f] # item.header

\* C13: the event, magnitudes, start, timestep, duration and sample count of
\* the Record, and the site fields the file gives, are those of the first
\* decoded channel, and no later channel changes them, be it accepted,
\* repeated or unused.
FirstChannelKept ==
    ~first_run =>
        LET first == yielded[1]
        IN /\ self.event = first.header.event
           /\ self.magnitudes = first.header.magnitudes
           /\ self.start = first.header.buffer_start
           /\ self.timestep = first.header.timestep
           /\ self.duration = first.header.duration
           /\ self.data_length = Len(first.data.acceleration.val)
           /\ site.latitude = Value(first.header.site.latitude)
           /\ site.longitude = Value(first.header.site.longitude)
           /\ site.longitudinal_axis = Value(first.header.site.longitudinal_axis)
           /\ site.local_gravity = Value(first.header.site.local_gravity)

\* A Record of four channels, one of them of a repeated axis, whose later
\* channels have other header fields than the first.
LaterChannelsDiffer ==
    /\ result = "Record"
    /\ Len(yielded) = 4
    /\ \E k \in 1..4 : k \notin FirstOccurrences
    /\ \A k \in 2..4 :
          /\ yielded[k].header.event # yielded[1].header.event
          /\ yielded[k].header.magnitudes # yielded[1].header.magnitudes
          /\ yielded[k].header.buffer_start # yielded[1].header.buffer_start
          /\ yielded[k].header.duration # yielded[1].header.duration
          /\ yielded[k].header.site # yielded[1].header.site
    /\ yielded[2].header.timestep # yielded[1].header.timestep

\* C14: in every produced Record the acceleration grid has 3 rows of
\* sample_count columns, and time has length sample_count with time[i] =
\* i * timestep (i from 0), where sample_count is the length of the first
\* decoded channel's acceleration sequence.
GridAndTimeShape ==
    result = "Record" =>
        LET n == Len(yielded[1].data.acceleration.val)
        IN /\ self.data_length = n
           /\ Len(self.acceleration) = 3
           /\ \A r \in 1..3 : Len(self.acceleration[r]) = n
           /\ Len(self.time) = n
           /\ \A i \in 1..n :
                 self.time[i] = Norm((i - 1) * self.timestep.m, self.timestep.e)

\* A Record of NSamples samples whose later channels give another timestep.
RecordTimed ==
    /\ result = "Record"
    /\ self.data_length = NSamples
    /\ Len(self.time) = NSamples
    /\ self.time[NSamples] # Norm(0, 0)
    /\ yielded[2].header.timestep # self.timestep

\* The requirements not met when the loop of Record.__init__ is over.
Unmet ==
    (IF vertical_axis THEN {} ELSE {"no vertical"})
        \cup (IF horizontal_axes < 2 THEN {"fewer than 2 horizontal"} ELSE {})

\* C15: when the channels are exhausted without both requirements met, the
\* failure raised carries which of them were unmet, so that a caller can
\* tell the cases apart from the failure value.
FailureNamesUnmet ==
    result = TooFewComponents.type =>
        {TooFewComponents.args[k] : k \in 1..Len(TooFewComponents.args)} = Unmet

\* Record.__init__ has ended by raising.
Failed == pc = "done" /\ result # "Record"

\* C16: whenever Record construction fails, by TooFewComponents or by a
\* decode error, nothing partially assembled is observable by the caller:
\* the site_info dictionary it supplied holds the same entries as before
\* the call.
SiteInfoUntouched == Failed => site = SiteInfo

\* C17: a stream that Record.__init__ opened itself is closed on every exit
\* path: success, TooFewComponents and decode failure alike.
ClosedOnEveryExit == (pc = "done" /\ close) => closed

\* The whitespace-separated tokens of the n lines of the file that follow
\* the header lines of its first block.
RECURSIVE spoken(_)
spoken(n) ==
    IF n = 0 THEN <<>>
    ELSE spoken(n - 1) \o split(source[SamplesAt + n])

\* C19: in the whitespace-tokenized variant accumulation stops exactly when
\* the running token count reaches the declared total sample count, and
\* never reads one line further: a line is read only when the lines before
\* it hold fewer tokens than the total, and reading stops only when the
\* lines read hold the total.
TokensStopAtTotal ==
    pc \in {"tokens", "done"} =>
        LET n == pos - SamplesAt
        IN /\ n > 0 => Len(spoken(n - 1)) < total(file.blocks[1])
           /\ pc = "done" => /\ Len(item.fields) >= total(file.blocks[1])
                              /\ Len(spoken(n)) >= total(file.blocks[1])
                              /\ item.fields = spoken(n)

\* Three samples, a value to a line: three lines were read and then no more.
TokensStopped ==
    /\ pc = "done"
    /\ file \in TokenFiles
    /\ file.blocks[1].layout = "single"
    /\ total(file.blocks[1]) = 3
    /\ pos = SamplesAt + 3
    /\ Len(item.fields) = 3

\* The get_record call in progress or last finished found its row.
Catalogued == server.pc # "none" /\ server.call.op = "get_record" /\ server.row # NoRow

\* The cache file of that call, as the call found it.
Found == server.before[server.row.filename]

\* C20: for a catalogued (event, site), get_record sends commands to the FTP
\* server only if skip_cache is true or the cache directory held no file of
\* that filename; a call that needs no download returns a Record built on the
\* file as it was cached, with no command sent; a call that needs one returns
\* a Record only after a RETR, built on what the server sent.
DownloadIffNeeded ==
    Catalogued =>
        LET need == server.call.skip_cache \/ ~Found.exists
        IN /\ server.ftp # <<>> => need
           /\ (server.pc = "idle" /\ ~need) =>
                 /\ server.ftp = <<>>
                 /\ server.exception = NoException
                 /\ server.opened.called
                 /\ server.opened.content = Found
           /\ (server.pc = "idle" /\ need) =>
                 /\ server.ftp # <<>>
                 /\ server.opened.called =>
                       /\ server.ftp[Len(server.ftp)] = "RETR"
                       /\ server.opened.content = Stored(Remote(server.row.filename))

\* C20 witness: a call with skip_cache false found the file cached and has
\* returned a Record built on it, which is not what the server would send.
ServedFromCache ==
    /\ Catalogued
    /\ server.pc = "idle"
    /\ ~server.call.skip_cache
    /\ Found.exists
    /\ server.opened.called
    /\ server.opened.content = Found
    /\ Found.data # Remote(server.row.filename)
    /\ server.ftp = <<>>

\* A get_record call has ended.
Ended == server.pc = "idle" /\ server.call.op = "get_record"

\* C21: a get_record call for a pair (event, uppercased site) the records
\* table has no row for ends with NoSuchRecord(event, uppercased site), with
\* no command sent to the FTP server and no connection opened, and with the
\* cache directory as the call found it.
NoSuchRecordIsLocal ==
    Ended =>
        LET code == upper(server.call.given)
        IN fetchone(server.call.event, code) = NoRow =>
              /\ server.exception = NoSuchRecord(server.call.event, code)
              /\ ~server.opened.called
              /\ server.ftp = <<>>
              /\ server.cache = server.before

\* C21 witness: a site given in lower case, whose uppercased code has no
\* record of the event, was refused while a cache file was there.
LowerCaseRefused ==
    /\ Ended
    /\ server.call.given = "cbgs"
    /\ server.call.event = 2
    /\ server.exception = NoSuchRecord(2, "CBGS")
    /\ \E n \in Filenames : server.cache[n].exists

\* A connect_ftp call has ended.
Connected == server.pc = "idle" /\ server.call.op = "connect_ftp"

\* The probe of that call met with a 421.
TimedOut ==
    /\ server.replies[1].type = "error_temp"
    /\ startswith(server.replies[1].args[1], "421")

\* C22: connect_ftp returns normally only with a connection held; a
\* connection held before is probed first; it is kept, with nothing else
\* sent, when the probe succeeds; when the probe meets with a 421 and the call
\* returns normally the connection held is a new one, logged in; any other
\* temporary error of the probe is raised with the old connection held.
ConnectFtpKeepsOrReplaces ==
    Connected =>
        /\ server.exception = NoException => hasattr(server.connection)
        /\ hasattr(server.held) =>
              /\ server.ftp[1] = "NOOP"
              /\ server.replies[1] = NoException =>
                    /\ server.exception = NoException
                    /\ server.connection = server.held
                    /\ server.ftp = <<"NOOP">>
              /\ (TimedOut /\ server.exception = NoException) =>
                    /\ server.connection.id = server.calls
                    /\ server.connection.id # server.held.id
                    /\ server.connection.logged_in
                    /\ server.ftp = <<"NOOP", "connect", "USER">>
              /\ (server.replies[1].type = "error_temp" /\ ~TimedOut) =>
                    /\ server.exception = server.replies[1]
                    /\ server.connection = server.held

\* C22 witness: a connection was held, its probe met with a 421 and the call
\* returned with another one.
Reconnected ==
    /\ Connected
    /\ hasattr(server.held)
    /\ TimedOut
    /\ server.exception = NoException
    /\ server.connection.id # server.held.id

\* The complete contents a finished download of a file can have left.
Downloads(name) == {Remote(name), Earlier(name)}

\* The call has sent RETR.
Retrieving == server.ftp # <<>> /\ server.ftp[Len(server.ftp)] = "RETR"

\* C26: between calls every file of the cache directory holds the complete
\* content of a finished download; a get_record call whose RETR raised ends
\* with that exception and with no file of that filename, and one that raised
\* before its RETR leaves the cache directory as it found it.
CacheIntegrity ==
    server.pc = "idle" =>
        /\ \A name \in Filenames :
              server.cache[name].exists => server.cache[name].data \in Downloads(name)
        /\ (Ended /\ server.row # NoRow /\ server.exception # NoException) =>
              IF Retrieving
              THEN /\ ~server.cache[server.row.filename].exists
                   /\ server.exception = server.replies[Len(server.replies)]
              ELSE server.cache = server.before

\* C26 witness: a forced download of a file that was cached has raised, and
\* the file of the other record is still there.
FailedDownloadRemoved ==
    /\ Ended
    /\ Retrieving
    /\ server.exception # NoException
    /\ Found.exists
    /\ ~server.cache[server.row.filename].exists
    /\ \E name \in Filenames : server.cache[name].exists

\* A disconnect_ftp call has ended.
Disconnected == server.pc = "idle" /\ server.call.op = "disconnect_ftp"

\* C29: disconnect_ftp raises nothing and ends with no connection held,
\* whatever quit() did; called right after a disconnect_ftp it sends nothing
\* and leaves no connection held, as the first call did.
DisconnectFtpIsQuiet ==
    Disconnected =>
        /\ server.exception = NoException
        /\ ~hasattr(server.connection)
        /\ server.cache = server.before
        /\ server.previous = "disconnect_ftp" =>
              /\ server.held = server.connection
              /\ server.ftp = <<>>

\* C29 witness: the server refused the QUIT of a connection that was held.
QuitRefused ==
    /\ Disconnected
    /\ hasattr(server.held)
    /\ server.ftp = <<"QUIT">>
    /\ server.replies[1] # NoException

\* A channel of a new horizontal axis is in hand after two horizontal
\* channels of distinct axes.
ThirdHorizontal ==
    /\ pc = "body"
    /\ item.kind = "ok"
    /\ item.header.axis # VerticalAxis
    /\ Len(yielded) \in FirstOccurrences
    /\ Cardinality(HorizontalsYielded) >= 3

\* C24: a channel of a new horizontal axis that comes after two accepted
\* horizontal channels leaves rows 0 and 1 of the grid and the horizontal
\* count as they are, and the horizontal count is at most 2 after every
\* step.
ThirdHorizontalDiscarded ==
    [][/\ horizontal_axes' <= 2
       /\ ThirdHorizontal =>
             /\ self'.acceleration[1] = self.acceleration[1]
             /\ self'.acceleration[2] = self.acceleration[2]
             /\ horizontal_axes' = horizontal_axes]_vars

\* C24 witness: the third horizontal channel of a file without a vertical
\* one so far has been passed over, the grid holding the first two.
ThirdHorizontalPassed ==
    /\ pc = "next"
    /\ horizontal_axes = 2
    /\ Len(yielded) \in HorizontalsYielded
    /\ Cardinality(HorizontalsYielded) = 3
    /\ \E i \in 1..self.data_length : self.acceleration[1][i] # <<>>

\* The first block of the file declares no acceleration samples and some
\* velocity or displacement samples, and is written whole.
ZeroAcceleration ==
    /\ file \in ComponentFiles
    /\ file.defect = NoDefect
    /\ file.blocks[1].a = 0
    /\ file.blocks[1].v + file.blocks[1].d > 0

EventsForm(path) ==
    LET rest == SubSeq(path, Len("/events") + 1, Len(path))
        segments == SelectSeq(split_on(rest, "/"), LAMBDA c : c # "")
    IN /\ startswith(path, "/events")
       /\ rest = "" \/ startswith(rest, "/")
       /\ Len(segments) <= 2
       /\ \A k \in 1..Len(segments) : int_ok(segments[k])

\* C23: a request whose path begins with /events is answered 200 if the path
\* is of the form /events, /events/<year> or /events/<year>/<month> with
\* integer year and month, and 404 if not.
EventsOnlyWellFormed ==
    (app.pc = "answered" /\ startswith(app.path, "/events")) =>
        app.response.status = IF EventsForm(app.path) THEN 200 ELSE 404

\* The file lies in the media directory tree.
inside(filename) == filename = media_path \/ startswith(filename, media_path \o "/")

\* C27: a request served by serve_media is answered 403 or 404 unless the
\* resolved filename lies inside the media directory tree.
MediaStaysInside ==
    (app.pc = "answered" /\ app.to = "serve_media") =>
        \/ inside(app.response.args[1])
        \/ app.response.status \in {403, 404}

\* The update last made was an update_events.
EventsUpdated == info_cache.pc = "idle" /\ info_cache.last.op = "update_events"

\* The events the server held in the months that update processed.
Processed ==
    {e \in info_cache.last.tree :
        \/ e.y > info_cache.last.since[1]
        \/ e.y = info_cache.last.since[1] /\ e.m >= info_cache.last.since[2]}

\* C28: after update_events, for every month it processed the events table
\* holds one row for each event directory the server listed and no other
\* row, and every row of the records table has the id of a row of the
\* events table.
EventsReplaced ==
    EventsUpdated =>
        /\ \A e \in Processed :
              LET kept == {r \in info_cache.events : r.year = e.y /\ r.month = e.m}
                  dirs == {f \in info_cache.last.tree : f.y = e.y /\ f.m = e.m}
              IN /\ Cardinality(kept) = Cardinality(dirs)
                 /\ \A f \in dirs : \E r \in kept :
                       /\ r.day = f.d
                       /\ r.hour * 10000 + r.minute * 100 + r.second = int(f.t)
        /\ \A r \in info_cache.records : \E e \in info_cache.events : e.id = r.event_id

\* C28 witness: the update was run again over a month that had events and
\* records, whose rows were replaced.
EventsRerun ==
    /\ EventsUpdated
    /\ \E r \in info_cache.last.replaced :
          /\ r \notin info_cache.events
          /\ \E e \in Processed : e.y = r.year /\ e.m = r.month
    /\ info_cache.records # {}

\* The update last made was an update_sites.
SitesUpdated == info_cache.pc = "idle" /\ info_cache.last.op = "update_sites"

\* C30: after update_sites the sites table holds, for each code of the list
\* downloaded, the first entry of that code, and nothing else.
SitesReplaced ==
    SitesUpdated =>
        LET list == info_cache.last.list
            firsts == {i \in 1..Len(list) : \A j \in 1..(i - 1) : list[j].Code # list[i].Code}
        IN info_cache.sites = {[code |-> list[i].Code, name |-> list[i].Name] : i \in firsts}

\* C30 witness: the list had two entries of one code, and the table held a
\* site before that the list does not have.
SitesRelisted ==
    /\ SitesUpdated
    /\ LET list == info_cache.last.list
       IN /\ \E i, j \in 1..Len(list) :
                i < j /\ list[i].Code = list[j].Code /\ list[i].Name # list[j].Name
          /\ \E r \in info_cache.last.replaced : \A i \in 1..Len(list) : list[i].Code # r.code

====
